---- MODULE Spec2Model ----
(***************************************************************************)
(* Sheldon bot: the per-chat engagement policy (reply cadence, humour and  *)
(* length knobs, ignore list), the natural-language settings parser that   *)
(* mutates it, the message handlers and the proactive poke scheduler.      *)
(*                                                                         *)
(* Tables of database.py are functions from primary keys to rows; a row    *)
(* that does not exist is a key outside the DOMAIN.  Time is counted in    *)
(* minutes (the scheduler polls every CHECK_INTERVAL = 60 s = 1 minute).   *)
(* Texts are sequences of letters; each Cyrillic letter is written as one  *)
(* transliterated element ("sh", "zh", "q" for the soft sign, ...).  The   *)
(* patterns are compiled with re.I: texts are taken to be lower case.      *)
(***************************************************************************)
EXTENDS Integers, Sequences, FiniteSets, TLC

VARIABLES
    now,            \* the clock read by NOW() and datetime.utcnow(), in minutes
    chat_settings,  \* table chat_settings: chat_id -> row
    users,          \* table users: user_id -> [username, bio]
    chat_members,   \* table chat_members: set of <<chat_id, user_id>>
    user_ignore,    \* table user_ignore: <<chat_id, user_id>> -> ignore_until
    image_gen_log,  \* table image_gen_log: date -> count
    last,           \* what the most recent handler run did (replies, store calls)
    hist,           \* tallies of what has been handled so far
    sched,          \* the scheduler task: where it is, the due chats it fetched
    tasks,          \* handler runs in progress, when handlers interleave
    process         \* the dispatcher's phase and database._pool of the process

vars == <<now, chat_settings, users, chat_members, user_ignore, image_gen_log,
          last, hist, sched, tasks, process>>

Max(S) == CHOOSE x \in S : \A y \in S : y <= x
Min(S) == CHOOSE x \in S : \A y \in S : x <= y

\* mutant: no upper bound is applied
Mutant_min_unbounded(a, b) == b

\* Python's min and max of two numbers
min(a, b) == IF a < b THEN a ELSE b
max(a, b) == IF a > b THEN a ELSE b

\* the element of a singleton; The({e(x) : x \in {v}}) is e with v computed once
The(S) == CHOOSE x \in S : TRUE

(***************************************************************************)
(* Regular expressions of SETTINGS_PATTERNS.  A pattern is the set of its  *)
(* alternatives, each a sequence of atoms: a letter, \s+ or \d+.           *)
(***************************************************************************)
WS == "\\s+"
DIGITS == "\\d+"
Ws == {<<WS>>}
Digits == {<<DIGITS>>}

IsSpace(c) == c \in {" ", "\t", "\n"}
IsDigit(c) == c \in {"0", "1", "2", "3", "4", "5", "6", "7", "8", "9"}
InClass(atom, c) == IF atom = WS THEN IsSpace(c) ELSE IsDigit(c)

RECURSIVE CatAll(_)
CatAll(parts) ==
    IF parts = <<>> THEN {<<>>}
    ELSE {a \o b : a \in Head(parts), b \in CatAll(Tail(parts))}

NoMatch == [ok |-> FALSE, group |-> <<>>]

\* re: match `pat` at position i of `text`, greedy with backtracking; group is
\* the text captured by (\d+)
RECURSIVE MatchFrom(_, _, _)
MatchFrom(pat, text, i) ==
    IF pat = <<>> THEN [ok |-> TRUE, group |-> <<>>]
    ELSE LET a == Head(pat)
             rest == Tail(pat)
         IN IF a \in {WS, DIGITS}
            THEN LET K == {k \in (i + 1)..(Len(text) + 1) :
                             /\ \A q \in i..(k - 1) : InClass(a, text[q])
                             /\ MatchFrom(rest, text, k).ok}
                 IN IF K = {} THEN NoMatch
                    ELSE LET k == Max(K)
                             r == MatchFrom(rest, text, k)
                         IN [ok |-> TRUE,
                             group |-> IF a = DIGITS THEN SubSeq(text, i, k - 1)
                                       ELSE r.group]
            ELSE IF i <= Len(text) /\ text[i] = a
                 THEN MatchFrom(rest, text, i + 1)
                 ELSE NoMatch

\* pattern.search(message_text): the leftmost match, or NoMatch
search(re, text) ==
    LET Starts == {i \in 1..(Len(text) + 1) : \E p \in re : MatchFrom(p, text, i).ok}
    IN IF Starts = {} THEN NoMatch
       ELSE LET i == Min(Starts)
                p == CHOOSE p \in re : MatchFrom(p, text, i).ok
            IN MatchFrom(p, text, i)

DigitValue(c) ==
    CASE c = "0" -> 0 [] c = "1" -> 1 [] c = "2" -> 2 [] c = "3" -> 3 [] c = "4" -> 4
      [] c = "5" -> 5 [] c = "6" -> 6 [] c = "7" -> 7 [] c = "8" -> 8 [] c = "9" -> 9

\* int(m.group(1))
RECURSIVE int(_)
int(s) == IF s = <<>> THEN 0 ELSE 10 * int(SubSeq(s, 1, Len(s) - 1)) + DigitValue(s[Len(s)])

\* ---- words (one element per letter, transliterated)
\* the literal words of the regular expressions of SETTINGS_PATTERNS
Word ==
    [aktivnee |-> <<"a", "k", "t", "i", "v", "n", "e", "e">>,
     bolqshe |-> <<"b", "o", "l", "q", "sh", "e">>,
     budq |-> <<"b", "u", "d", "q">>,
     bukv |-> <<"b", "u", "k", "v">>,
     chashche |-> <<"ch", "a", "shch", "e">>,
     dlinno |-> <<"d", "l", "i", "n", "n", "o">>,
     dn |-> <<"d", "n">>,
     ignoriruj |-> <<"i", "g", "n", "o", "r", "i", "r", "u", "j">>,
     ko |-> <<"k", "o">>,
     koroche |-> <<"k", "o", "r", "o", "ch", "e">>,
     kratche |-> <<"k", "r", "a", "t", "ch", "e">>,
     kratko |-> <<"k", "r", "a", "t", "k", "o">>,
     lakonichnee |-> <<"l", "a", "k", "o", "n", "i", "ch", "n", "e", "e">>,
     luchshe |-> <<"l", "u", "ch", "sh", "e">>,
     menqshe |-> <<"m", "e", "n", "q", "sh", "e">>,
     menya |-> <<"m", "e", "n", "ya">>,
     mne |-> <<"m", "n", "e">>,
     mnogo |-> <<"m", "n", "o", "g", "o">>,
     ne |-> <<"n", "e">>,
     ne_smeshnaya |-> <<"n", "e", " ", "s", "m", "e", "sh", "n", "a", "ya">>,
     nesmeshnaya |-> <<"n", "e", "s", "m", "e", "sh", "n", "a", "ya">>,
     obrashchajsya |-> <<"o", "b", "r", "a", "shch", "a", "j", "s", "ya">>,
     ostavq |-> <<"o", "s", "t", "a", "v", "q">>,
     ot |-> <<"o", "t">>,
     otvechaj |-> <<"o", "t", "v", "e", "ch", "a", "j">>,
     pishi |-> <<"p", "i", "sh", "i">>,
     plohaya |-> <<"p", "l", "o", "h", "a", "ya">>,
     podrobnee |-> <<"p", "o", "d", "r", "o", "b", "n", "e", "e">>,
     pokoe |-> <<"p", "o", "k", "o", "e">>,
     pomolchi |-> <<"p", "o", "m", "o", "l", "ch", "i">>,
     potish |-> <<"p", "o", "t", "i", "sh">>,
     potishe |-> <<"p", "o", "t", "i", "sh", "e">>,
     prikolov |-> <<"p", "r", "i", "k", "o", "l", "o", "v">>,
     prikolqnee |-> <<"p", "r", "i", "k", "o", "l", "q", "n", "e", "e">>,
     razvernuto |-> <<"r", "a", "z", "v", "e", "r", "n", "u", "t", "o">>,
     razvyornuto |-> <<"r", "a", "z", "v", "yo", "r", "n", "u", "t", "o">>,
     rezhe |-> <<"r", "e", "zh", "e">>,
     shuti |-> <<"sh", "u", "t", "i">>,
     shutka |-> <<"sh", "u", "t", "k", "a">>,
     shutok |-> <<"sh", "u", "t", "o", "k">>,
     slishkom |-> <<"s", "l", "i", "sh", "k", "o", "m">>,
     smeshnee |-> <<"s", "m", "e", "sh", "n", "e", "e">>,
     smeshno |-> <<"s", "m", "e", "sh", "n", "o">>,
     tebya |-> <<"t", "e", "b", "ya">>,
     teksta |-> <<"t", "e", "k", "s", "t", "a">>,
     trogaj |-> <<"t", "r", "o", "g", "a", "j">>,
     ustal |-> <<"u", "s", "t", "a", "l">>,
     v |-> <<"v">>,
     veselee |-> <<"v", "e", "s", "e", "l", "e", "e">>,
     yumora |-> <<"yu", "m", "o", "r", "a">>,
     zamolchi |-> <<"z", "a", "m", "o", "l", "ch", "i">>,
     zatknisq |-> <<"z", "a", "t", "k", "n", "i", "s", "q">>]


\* bot.py:94-129  the table, one entry per source line, in the source's order
SETTINGS_PATTERNS == <<
    \* bot.py:95  shuti\s+(chashche|bolqshe|aktivnee|veselee|smeshnee|luchshe)
    [re |-> CatAll(<<{Word.shuti}, Ws, {Word.chashche, Word.bolqshe, Word.aktivnee, Word.veselee, Word.smeshnee, Word.luchshe}>>), action |-> "humor_up", delta |-> 2],
    \* bot.py:96  bolqshe\s+(yumora|shutok|prikolov)
    [re |-> CatAll(<<{Word.bolqshe}, Ws, {Word.yumora, Word.shutok, Word.prikolov}>>), action |-> "humor_up", delta |-> 2],
    \* bot.py:97  budq\s+(smeshnee|veselee|prikolqnee)
    [re |-> CatAll(<<{Word.budq}, Ws, {Word.smeshnee, Word.veselee, Word.prikolqnee}>>), action |-> "humor_up", delta |-> 2],
    \* bot.py:100  shuti\s+(rezhe|menqshe|potishe|potish)
    [re |-> CatAll(<<{Word.shuti}, Ws, {Word.rezhe, Word.menqshe, Word.potishe, Word.potish}>>), action |-> "humor_down", delta |-> 2],
    \* bot.py:101  menqshe\s+(yumora|shutok|prikolov)
    [re |-> CatAll(<<{Word.menqshe}, Ws, {Word.yumora, Word.shutok, Word.prikolov}>>), action |-> "humor_down", delta |-> 2],
    \* bot.py:102  (plohaya|ne smeshnaya|nesmeshnaya)\s+shutka
    [re |-> CatAll(<<{Word.plohaya, Word.ne_smeshnaya, Word.nesmeshnaya}, Ws, {Word.shutka}>>), action |-> "humor_down", delta |-> 1],
    \* bot.py:103  ne\s+smeshno
    [re |-> CatAll(<<{Word.ne}, Ws, {Word.smeshno}>>), action |-> "humor_down", delta |-> 1],
    \* bot.py:106  pishi\s+(chashche|aktivnee|bolqshe)
    [re |-> CatAll(<<{Word.pishi}, Ws, {Word.chashche, Word.aktivnee, Word.bolqshe}>>), action |-> "freq_up", delta |-> 3],
    \* bot.py:107  otvechaj\s+(chashche|aktivnee)
    [re |-> CatAll(<<{Word.otvechaj}, Ws, {Word.chashche, Word.aktivnee}>>), action |-> "freq_up", delta |-> 3],
    \* bot.py:110  pishi\s+rezhe
    [re |-> CatAll(<<{Word.pishi}, Ws, {Word.rezhe}>>), action |-> "freq_down", delta |-> 5],
    \* bot.py:111  zatknisq|pomolchi|zamolchi
    [re |-> {Word.zatknisq, Word.pomolchi, Word.zamolchi}, action |-> "freq_down", delta |-> 5],
    \* bot.py:112  ustal\s+ot\s+tebya
    [re |-> CatAll(<<{Word.ustal}, Ws, {Word.ot}, Ws, {Word.tebya}>>), action |-> "freq_down", delta |-> 5],
    \* bot.py:113  otvechaj\s+rezhe
    [re |-> CatAll(<<{Word.otvechaj}, Ws, {Word.rezhe}>>), action |-> "freq_down", delta |-> 5],
    \* bot.py:116  pishi\s+(koroche|menqshe|kratche|lakonichnee)
    [re |-> CatAll(<<{Word.pishi}, Ws, {Word.koroche, Word.menqshe, Word.kratche, Word.lakonichnee}>>), action |-> "length_down", delta |-> 1],
    \* bot.py:117  otvechaj\s+(koroche|kratko|menqshe)
    [re |-> CatAll(<<{Word.otvechaj}, Ws, {Word.koroche, Word.kratko, Word.menqshe}>>), action |-> "length_down", delta |-> 1],
    \* bot.py:118  (slishkom\s+dlinno|mnogo\s+teksta|mnogo\s+bukv)
    [re |-> (CatAll(<<{Word.slishkom}, Ws, {Word.dlinno}>>) \cup CatAll(<<{Word.mnogo}, Ws, {Word.teksta}>>) \cup CatAll(<<{Word.mnogo}, Ws, {Word.bukv}>>)), action |-> "length_down", delta |-> 1],
    \* bot.py:121  pishi\s+(podrobnee|bolqshe|razvyornuto|razvernuto)
    [re |-> CatAll(<<{Word.pishi}, Ws, {Word.podrobnee, Word.bolqshe, Word.razvyornuto, Word.razvernuto}>>), action |-> "length_up", delta |-> 1],
    \* bot.py:122  otvechaj\s+(podrobnee|razvyornuto)
    [re |-> CatAll(<<{Word.otvechaj}, Ws, {Word.podrobnee, Word.razvyornuto}>>), action |-> "length_up", delta |-> 1],
    \* bot.py:125  ne\s+obrashchajsya\s+ko\s+mne\s+(\d+)\s+dn
    [re |-> CatAll(<<{Word.ne}, Ws, {Word.obrashchajsya}, Ws, {Word.ko}, Ws, {Word.mne}, Ws, Digits, Ws, {Word.dn}>>), action |-> "ignore_me", delta |-> 0],
    \* bot.py:126  ignoriruj\s+menya\s+(\d+)\s+dn
    [re |-> CatAll(<<{Word.ignoriruj}, Ws, {Word.menya}, Ws, Digits, Ws, {Word.dn}>>), action |-> "ignore_me", delta |-> 0],
    \* bot.py:127  ne\s+trogaj\s+menya\s+(\d+)\s+dn
    [re |-> CatAll(<<{Word.ne}, Ws, {Word.trogaj}, Ws, {Word.menya}, Ws, Digits, Ws, {Word.dn}>>), action |-> "ignore_me", delta |-> 0],
    \* bot.py:128  ostavq\s+menya\s+v\s+pokoe\s+(\d+)\s+dn
    [re |-> CatAll(<<{Word.ostavq}, Ws, {Word.menya}, Ws, {Word.v}, Ws, {Word.pokoe}, Ws, Digits, Ws, {Word.dn}>>), action |-> "ignore_me", delta |-> 0]
>>

\* ---- message texts
\* "privet vsem"
T_plain == <<"p", "r", "i", "v", "e", "t", " ", "v", "s", "e", "m">>
\* "shuti chashche"
T_shuti_chashche == <<"sh", "u", "t", "i", " ", "ch", "a", "shch", "e">>
\* "ne smeshno"
T_ne_smeshno == <<"n", "e", " ", "s", "m", "e", "sh", "n", "o">>
\* "plohaya shutka, ne smeshno"
T_plohaya_shutka == <<"p", "l", "o", "h", "a", "ya", " ", "sh", "u", "t", "k", "a", ",", " ", "n", "e", " ", "s", "m", "e", "sh", "n", "o">>
\* "pishi chashche"
T_pishi_chashche == <<"p", "i", "sh", "i", " ", "ch", "a", "shch", "e">>
\* "pishi rezhe"
T_pishi_rezhe == <<"p", "i", "sh", "i", " ", "r", "e", "zh", "e">>
\* "zatknisq, pishi rezhe"
T_zatknis_pishi_rezhe == <<"z", "a", "t", "k", "n", "i", "s", "q", ",", " ", "p", "i", "sh", "i", " ", "r", "e", "zh", "e">>
\* "pishi bolqshe"
T_pishi_bolshe == <<"p", "i", "sh", "i", " ", "b", "o", "l", "q", "sh", "e">>
\* "pishi koroche"
T_pishi_koroche == <<"p", "i", "sh", "i", " ", "k", "o", "r", "o", "ch", "e">>
\* "pishi podrobnee"
T_pishi_podrobnee == <<"p", "i", "sh", "i", " ", "p", "o", "d", "r", "o", "b", "n", "e", "e">>
\* "pishi koroche i rezhe"
T_koroche_i_rezhe == <<"p", "i", "sh", "i", " ", "k", "o", "r", "o", "ch", "e", " ", "i", " ", "r", "e", "zh", "e">>
\* "pishi koroche, pishi rezhe"
T_koroche_pishi_rezhe == <<"p", "i", "sh", "i", " ", "k", "o", "r", "o", "ch", "e", ",", " ", "p", "i", "sh", "i", " ", "r", "e", "zh", "e">>
\* "slishkom dlinno, pishi koroche, zatknisq, pishi rezhe"
T_dlinno_zatknis == <<"s", "l", "i", "sh", "k", "o", "m", " ", "d", "l", "i", "n", "n", "o", ",", " ", "p", "i", "sh", "i", " ", "k", "o", "r", "o", "ch", "e", ",", " ", "z", "a", "t", "k", "n", "i", "s", "q", ",", " ", "p", "i", "sh", "i", " ", "r", "e", "zh", "e">>
\* "pishi chashche, otvechaj rezhe"
T_chashche_rezhe == <<"p", "i", "sh", "i", " ", "ch", "a", "shch", "e", ",", " ", "o", "t", "v", "e", "ch", "a", "j", " ", "r", "e", "zh", "e">>
\* "ignoriruj menya"
T_ignore_none == <<"i", "g", "n", "o", "r", "i", "r", "u", "j", " ", "m", "e", "n", "ya">>
\* "ignoriruj menya 0 dnej"
T_ignore_0 == <<"i", "g", "n", "o", "r", "i", "r", "u", "j", " ", "m", "e", "n", "ya", " ", "0", " ", "d", "n", "e", "j">>
\* "ignoriruj menya 1 denq"
T_ignore_1_den == <<"i", "g", "n", "o", "r", "i", "r", "u", "j", " ", "m", "e", "n", "ya", " ", "1", " ", "d", "e", "n", "q">>
\* "ne trogaj menya 2 dnya"
T_ignore_2 == <<"n", "e", " ", "t", "r", "o", "g", "a", "j", " ", "m", "e", "n", "ya", " ", "2", " ", "d", "n", "ya">>
\* "ne obrashchajsya ko mne 45 dnej"
T_ignore_45 == <<"n", "e", " ", "o", "b", "r", "a", "shch", "a", "j", "s", "ya", " ", "k", "o", " ", "m", "n", "e", " ", "4", "5", " ", "d", "n", "e", "j">>
\* "ostavq menya v pokoe  7 dn, pishi koroche"
T_ignore_7_koroche == <<"o", "s", "t", "a", "v", "q", " ", "m", "e", "n", "ya", " ", "v", " ", "p", "o", "k", "o", "e", " ", " ", "7", " ", "d", "n", ",", " ", "p", "i", "sh", "i", " ", "k", "o", "r", "o", "ch", "e">>
\* "zatknisq, pishi rezhe, pishi koroche"
T_zatknis_rezhe_koroche == <<"z", "a", "t", "k", "n", "i", "s", "q", ",", " ", "p", "i", "sh", "i", " ", "r", "e", "zh", "e", ",", " ", "p", "i", "sh", "i", " ", "k", "o", "r", "o", "ch", "e">>

(***************************************************************************)
(* database.py: the store.  Every operator takes the table and returns the *)
(* table after the statement; t is the value NOW() has when it runs.       *)
(***************************************************************************)
MinutesPerDay == 1440
IMAGE_GEN_DAILY_LIMIT == 10

\* CURRENT_DATE: the calendar day (UTC) of the clock
CURRENT_DATE(t) == t \div MinutesPerDay

\* mutant: next_poke_at defaults to a minute after the creation
Mutant_DefaultRow_poke_later(t) ==
    [message_count |-> 0, reply_frequency |-> 5, humor_level |-> 5,
     last_activity |-> t, next_poke_at |-> t + 1, max_response_lines |-> 3]

\* column defaults of chat_settings
DefaultRow(t) ==
    [message_count |-> 0, reply_frequency |-> 5, humor_level |-> 5,
     last_activity |-> t, next_poke_at |-> t, max_response_lines |-> 3]

\* mutant: INSERT ... ON CONFLICT (chat_id) DO UPDATE, the columns set anew
Mutant_ensure_chat_do_update(cs, chat_id, t) ==
    [c \in DOMAIN cs \cup {chat_id} |-> IF c = chat_id THEN DefaultRow(t) ELSE cs[c]]

\* INSERT ... ON CONFLICT (chat_id) DO NOTHING
_ensure_chat(cs, chat_id, t) ==
    IF chat_id \in DOMAIN cs THEN cs ELSE cs @@ (chat_id :> DefaultRow(t))

get_full_chat_settings(cs, chat_id, t) == _ensure_chat(cs, chat_id, t)

\* mutant: the UPDATE writes back the count without adding to it
Mutant_increment_and_get_no_add(cs, chat_id, t) == _ensure_chat(cs, chat_id, t)

\* UPDATE ... SET message_count = message_count + 1 (after _ensure_chat)
increment_and_get(cs, chat_id, t) ==
    LET cs1 == _ensure_chat(cs, chat_id, t)
    IN [cs1 EXCEPT ![chat_id].message_count = @ + 1]

\* UPDATE ... SET message_count = 0 (no _ensure_chat: no row, no effect)
reset_message_count(cs, chat_id) ==
    IF chat_id \in DOMAIN cs THEN [cs EXCEPT ![chat_id].message_count = 0] ELSE cs

\* mutant: "reply less" stops at 10, as humour and length do
Mutant_increase_reply_frequency_capped(cs, chat_id, delta, t) ==
    LET cs1 == _ensure_chat(cs, chat_id, t)
    IN [cs1 EXCEPT ![chat_id].reply_frequency = min(10, @ + delta)]

increase_reply_frequency(cs, chat_id, delta, t) ==
    LET cs1 == _ensure_chat(cs, chat_id, t)
    IN [cs1 EXCEPT ![chat_id].reply_frequency = @ + delta]

\* the UPDATE of reply_frequency that freq_up and /frequency run themselves
set_reply_frequency(cs, chat_id, new_val, t) ==
    LET cs1 == _ensure_chat(cs, chat_id, t)
    IN [cs1 EXCEPT ![chat_id].reply_frequency = new_val]

set_humor_level(cs, chat_id, level, t) ==
    LET cs1 == _ensure_chat(cs, chat_id, t)
    IN [cs1 EXCEPT ![chat_id].humor_level = max(1, min(10, level))]

set_max_response_lines(cs, chat_id, lines, t) ==
    LET cs1 == _ensure_chat(cs, chat_id, t)
    IN [cs1 EXCEPT ![chat_id].max_response_lines = max(1, min(10, lines))]

\* mutant: activity also moves the poke time, to a day later
Mutant_touch_last_activity_reschedules(cs, chat_id, t) ==
    LET cs1 == _ensure_chat(cs, chat_id, t)
    IN [cs1 EXCEPT ![chat_id].last_activity = t,
                   ![chat_id].next_poke_at = t + MinutesPerDay]

touch_last_activity(cs, chat_id, t) ==
    LET cs1 == _ensure_chat(cs, chat_id, t)
    IN [cs1 EXCEPT ![chat_id].last_activity = t]

set_next_poke_at(cs, chat_id, minutes_from_now, t) ==
    LET cs1 == _ensure_chat(cs, chat_id, t)
    IN [cs1 EXCEPT ![chat_id].next_poke_at = t + minutes_from_now]

\* WHERE next_poke_at <= NOW() AND last_activity < next_poke_at
\* mutant: every chat whose poke time has come, active since or not
Mutant_due_whatever_the_activity(cs, t) == {c \in DOMAIN cs : cs[c].next_poke_at <= t}

get_chats_due_for_poke(cs, t) ==
    {c \in DOMAIN cs : cs[c].next_poke_at <= t /\ cs[c].last_activity < cs[c].next_poke_at}

get_all_chat_ids(cs) == DOMAIN cs

\* mutant: INSERT ... ON CONFLICT (user_id) DO UPDATE SET username, bio
Mutant_upsert_user_resets_bio(us, user_id, username) ==
    [u \in DOMAIN us \cup {user_id} |->
        IF u = user_id THEN [username |-> username, bio |-> <<>>] ELSE us[u]]

\* INSERT ... ON CONFLICT (user_id) DO UPDATE SET username = EXCLUDED.username
upsert_user(us, user_id, username) ==
    IF user_id \in DOMAIN us THEN [us EXCEPT ![user_id].username = username]
    ELSE us @@ (user_id :> [username |-> username, bio |-> <<>>])

\* UPDATE users SET bio = $1 WHERE user_id = $2
set_user_bio(us, user_id, bio) ==
    IF user_id \in DOMAIN us THEN [us EXCEPT ![user_id].bio = bio] ELSE us

add_chat_member(cm, chat_id, user_id) == cm \cup {<<chat_id, user_id>>}

\* chat_members JOIN users
get_chat_members(cm, us, chat_id) ==
    {u \in DOMAIN us : <<chat_id, u>> \in cm}

get_members_without_bio(cm, us, chat_id) ==
    {u \in get_chat_members(cm, us, chat_id) : us[u].bio = <<>>}

\* mutant: ON CONFLICT keeps the later of the two times
Mutant_set_user_ignore_keeps_later(ui, chat_id, user_id, until_ts) ==
    IF <<chat_id, user_id>> \in DOMAIN ui
    THEN [ui EXCEPT ![<<chat_id, user_id>>] = max(@, until_ts)]
    ELSE ui @@ (<<chat_id, user_id>> :> until_ts)

\* INSERT ... ON CONFLICT (chat_id, user_id) DO UPDATE SET ignore_until = EXCLUDED.ignore_until
set_user_ignore(ui, chat_id, user_id, until_ts) ==
    IF <<chat_id, user_id>> \in DOMAIN ui
    THEN [ui EXCEPT ![<<chat_id, user_id>>] = until_ts]
    ELSE ui @@ (<<chat_id, user_id>> :> until_ts)

\* SELECT 1 ... WHERE chat_id = $1 AND user_id = $2 AND ignore_until > NOW()
\* mutant: an entry still counts at the instant it expires
Mutant_is_user_ignored_at_expiry(ui, chat_id, user_id, t) ==
    /\ <<chat_id, user_id>> \in DOMAIN ui
    /\ ui[<<chat_id, user_id>>] >= t

is_user_ignored(ui, chat_id, user_id, t) ==
    /\ <<chat_id, user_id>> \in DOMAIN ui
    /\ ui[<<chat_id, user_id>>] > t

get_image_gen_count_today(log, t) ==
    IF CURRENT_DATE(t) \in DOMAIN log THEN log[CURRENT_DATE(t)] ELSE 0

\* the comparison with the limit taken as "at most"
Mutant_image_gen_allowed_at_limit(log, t) ==
    get_image_gen_count_today(log, t) <= IMAGE_GEN_DAILY_LIMIT

image_gen_allowed(log, t) == get_image_gen_count_today(log, t) < IMAGE_GEN_DAILY_LIMIT

\* INSERT (CURRENT_DATE, 1) ON CONFLICT (date) DO UPDATE SET count = count + 1
increment_image_gen_count(log, t) ==
    IF CURRENT_DATE(t) \in DOMAIN log
    THEN [log EXCEPT ![CURRENT_DATE(t)] = @ + 1]
    ELSE log @@ (CURRENT_DATE(t) :> 1)

(***************************************************************************)
(* bot.py: _detect_and_apply_settings.  st = [cs, ui, applied]: the two    *)
(* tables it writes and the list `applied` of effect descriptions, each    *)
(* description <<kind, value>> standing for the formatted string.          *)
(***************************************************************************)
\* the new value each adjustment computes from the settings it has read
humor_up_value(settings, chat_id, delta) == min(10, settings[chat_id].humor_level + delta)
humor_down_value(settings, chat_id, delta) == max(1, settings[chat_id].humor_level - delta)

\* mutant: "reply more" without the floor of 1
Mutant_freq_up_no_floor(settings, chat_id, delta) ==
    settings[chat_id].reply_frequency - delta

freq_up_value(settings, chat_id, delta) == max(1, settings[chat_id].reply_frequency - delta)
length_down_value(settings, chat_id, delta) ==
    max(1, settings[chat_id].max_response_lines - delta)
length_up_value(settings, chat_id, delta) ==
    min(10, settings[chat_id].max_response_lines + delta)

apply_humor_up(st, chat_id, delta, t) ==
    LET settings == get_full_chat_settings(st.cs, chat_id, t)
        new_val == humor_up_value(settings, chat_id, delta)
    IN [st EXCEPT !.cs = set_humor_level(settings, chat_id, new_val, t),
                  !.applied = Append(@, <<"humor", new_val>>)]

apply_humor_down(st, chat_id, delta, t) ==
    LET settings == get_full_chat_settings(st.cs, chat_id, t)
        new_val == humor_down_value(settings, chat_id, delta)
    IN [st EXCEPT !.cs = set_humor_level(settings, chat_id, new_val, t),
                  !.applied = Append(@, <<"humor", new_val>>)]

apply_freq_up(st, chat_id, delta, t) ==
    LET settings == get_full_chat_settings(st.cs, chat_id, t)
        new_val == freq_up_value(settings, chat_id, delta)
    IN [st EXCEPT !.cs = set_reply_frequency(settings, chat_id, new_val, t),
                  !.applied = Append(@, <<"freq", new_val>>)]

apply_freq_down(st, chat_id, delta, t) ==
    LET cs1 == increase_reply_frequency(st.cs, chat_id, delta, t)
    IN [st EXCEPT !.cs = cs1,
                  !.applied = Append(@, <<"freq", cs1[chat_id].reply_frequency>>)]

apply_length_down(st, chat_id, delta, t) ==
    LET settings == get_full_chat_settings(st.cs, chat_id, t)
        new_val == length_down_value(settings, chat_id, delta)
    IN [st EXCEPT !.cs = set_max_response_lines(settings, chat_id, new_val, t),
                  !.applied = Append(@, <<"length", new_val>>)]

apply_length_up(st, chat_id, delta, t) ==
    LET settings == get_full_chat_settings(st.cs, chat_id, t)
        new_val == length_up_value(settings, chat_id, delta)
    IN [st EXCEPT !.cs = set_max_response_lines(settings, chat_id, new_val, t),
                  !.applied = Append(@, <<"length", new_val>>)]

\* mutant: the day count is taken as written
Mutant_ignore_days_as_written(m) == IF m.group # <<>> THEN int(m.group) ELSE 1

\* days = int(m.group(1)) if m.lastindex and m.group(1) else 1; clamped to [1, 30]
ignore_days(m) == max(1, min(30, IF m.group # <<>> THEN int(m.group) ELSE 1))

apply_ignore_me(st, m, chat_id, user_id, t) ==
    LET days == ignore_days(m)
        until == t + days * MinutesPerDay
    IN [st EXCEPT !.ui = set_user_ignore(@, chat_id, user_id, until),
                  !.applied = Append(@, <<"ignore", days>>)]

\* pattern.search(message_text) for entry k of the table, evaluated once per text
AllTexts ==
    {<<>>, T_plain, T_shuti_chashche, T_ne_smeshno, T_plohaya_shutka, T_pishi_chashche,
     T_pishi_rezhe, T_zatknis_pishi_rezhe, T_pishi_bolshe, T_pishi_koroche,
     T_pishi_podrobnee, T_koroche_i_rezhe, T_koroche_pishi_rezhe, T_dlinno_zatknis,
     T_chashche_rezhe, T_ignore_none, T_ignore_0, T_ignore_1_den, T_ignore_2,
     T_ignore_45, T_ignore_7_koroche, T_zatknis_rezhe_koroche}

MatchTable ==
    [text \in AllTexts |->
        [k \in 1..Len(SETTINGS_PATTERNS) |-> search(SETTINGS_PATTERNS[k].re, text)]]

pattern_search(k, message_text) == MatchTable[message_text][k]

\* one iteration of `for pattern, action, delta in SETTINGS_PATTERNS`
apply_entry(st, k, message_text, chat_id, user_id, t) ==
    LET entry == SETTINGS_PATTERNS[k]
        m == pattern_search(k, message_text)
    IN IF ~m.ok THEN st
       ELSE CASE entry.action = "humor_up"    -> apply_humor_up(st, chat_id, entry.delta, t)
              [] entry.action = "humor_down"  -> apply_humor_down(st, chat_id, entry.delta, t)
              [] entry.action = "freq_up"     -> apply_freq_up(st, chat_id, entry.delta, t)
              [] entry.action = "freq_down"   -> apply_freq_down(st, chat_id, entry.delta, t)
              [] entry.action = "length_down" -> apply_length_down(st, chat_id, entry.delta, t)
              [] entry.action = "length_up"   -> apply_length_up(st, chat_id, entry.delta, t)
              [] entry.action = "ignore_me"   -> apply_ignore_me(st, m, chat_id, user_id, t)

RECURSIVE apply_entries(_, _, _, _, _, _)
apply_entries(st, k, message_text, chat_id, user_id, t) ==
    IF k > Len(SETTINGS_PATTERNS) THEN st
    ELSE The({apply_entries(st1, k + 1, message_text, chat_id, user_id, t) :
                 st1 \in {apply_entry(st, k, message_text, chat_id, user_id, t)}})

\* dict.fromkeys(applied): the first occurrence of each description, in order
RECURSIVE fromkeys(_)
fromkeys(applied) ==
    IF applied = <<>> THEN <<>>
    ELSE LET init == SubSeq(applied, 1, Len(applied) - 1)
             x == applied[Len(applied)]
             d == fromkeys(init)
         IN IF \E i \in 1..Len(d) : d[i] = x THEN d ELSE Append(d, x)

\* the result: the tables, `applied`, and the acknowledgment's list of changes
\* (the function returns None exactly when applied is empty)
_detect_and_apply_settings(message_text, chat_id, user_id, cs, ui, t) ==
    The({[cs |-> st.cs, ui |-> st.ui, applied |-> st.applied,
          changes |-> fromkeys(st.applied)] :
            st \in {apply_entries([cs |-> cs, ui |-> ui, applied |-> <<>>], 1,
                                  message_text, chat_id, user_id, t)}})

(***************************************************************************)
(* bot.py: the message handlers.  A message m is                           *)
(*   [kind, chat_id, user, is_bot, username, text, reply_to, mention]      *)
(* with user = NoUser when from_user is absent, text the text or caption,  *)
(* reply_to what the message replies to ("none", "user", "bot", or         *)
(* "bot_dossier": a message of the engine whose text contains the dossier  *)
(* word) and mention whether an entity @-mentions the engine.  env holds   *)
(* what the external services answer while the handler runs.               *)
(* save_message / get_recent_messages only feed the completion prompt and  *)
(* are left out.                                                           *)
(***************************************************************************)
NoUser == 0

\* message.chat.type: Telegram gives groups negative ids, private chats the user's id
ChatType(chat_id) == IF chat_id < 0 THEN "group" ELSE "private"

_is_direct_mention(m) == m.reply_to \in {"bot", "bot_dossier"} \/ m.mention

\* database.get_pool: every store operation begins with it; a pool that is
\* None is created
get_pool(p) == [p EXCEPT !.pool = "open"]

\* what a handler run is seen to do
NoOut == [replies |-> <<>>, asks |-> 0, incrs |-> 0, resets |-> 0,
          applied |-> <<>>, changes |-> <<>>]

Store == [cs |-> chat_settings, us |-> users, cm |-> chat_members,
          ui |-> user_ignore, log |-> image_gen_log, out |-> NoOut]

\* mutant: a failure of the completion service leaves the message unanswered
Mutant_ask_sheldon_no_fallback(s, chat_id, complete_ok, t) ==
    [s EXCEPT !.cs = get_full_chat_settings(@, chat_id, t),
              !.out.asks = @ + 1,
              !.out.replies = IF complete_ok THEN Append(@, "sheldon") ELSE @]

\* _ask_sheldon: reads the settings (creating the row), calls the completion
\* service and returns its text, or the fixed fallback text when it fails
_ask_sheldon(s, chat_id, complete_ok, t) ==
    [s EXCEPT !.cs = get_full_chat_settings(@, chat_id, t),
              !.out.asks = @ + 1,
              !.out.replies = Append(@, IF complete_ok THEN "sheldon" ELSE "fallback")]

reply(s, what) == [s EXCEPT !.out.replies = Append(@, what)]

reset_count(s, chat_id) ==
    [s EXCEPT !.cs = reset_message_count(@, chat_id), !.out.resets = @ + 1]

incr_count(s, chat_id, t) ==
    [s EXCEPT !.cs = increment_and_get(@, chat_id, t), !.out.incrs = @ + 1]

\* mutant: the reply comes one message late (count > frequency)
Mutant_counter_reply_late(s, chat_id, env, t) ==
    The({LET count == s1.cs[chat_id].message_count
             frequency == s1.cs[chat_id].reply_frequency
         IN IF count > frequency
            THEN reset_count(_ask_sheldon(s1, chat_id, env.complete_ok, t), chat_id)
            ELSE s1 :
           s1 \in {incr_count(s, chat_id, t)}})

\* on_group_message, from the counter-based reply on
counter_reply(s, chat_id, env, t) ==
    The({LET count == s1.cs[chat_id].message_count
             frequency == s1.cs[chat_id].reply_frequency
         IN IF count >= frequency
            THEN reset_count(_ask_sheldon(s1, chat_id, env.complete_ok, t), chat_id)
            ELSE s1 :
           s1 \in {incr_count(s, chat_id, t)}})

\* mutant: the direct mention replies without resetting the counter
Mutant_trigger_no_reset(s, m, env, t) ==
    IF _is_direct_mention(m)
    THEN _ask_sheldon(s, m.chat_id, env.complete_ok, t)
    ELSE counter_reply(s, m.chat_id, env, t)

\* mutant: nothing is answered to a sender who asked to be left alone
Mutant_trigger_unless_ignored(s, m, env, t) ==
    IF is_user_ignored(s.ui, m.chat_id, m.user, t) THEN s
    ELSE IF _is_direct_mention(m)
         THEN reset_count(_ask_sheldon(s, m.chat_id, env.complete_ok, t), m.chat_id)
         ELSE counter_reply(s, m.chat_id, env, t)

\* on_group_message, from the direct mention on
trigger(s, m, env, t) ==
    IF _is_direct_mention(m)
    THEN reset_count(_ask_sheldon(s, m.chat_id, env.complete_ok, t), m.chat_id)
    ELSE counter_reply(s, m.chat_id, env, t)

\* mutant: the acknowledgment does not return, the trigger still runs
Mutant_settings_no_return(s, m, env, t) ==
    The({LET s1 == [s EXCEPT !.cs = d.cs, !.ui = d.ui,
                             !.out.applied = d.applied, !.out.changes = d.changes]
         IN IF d.applied # <<>> THEN trigger(reply(s1, "settings_ack"), m, env, t)
            ELSE trigger(s1, m, env, t) :
           d \in {_detect_and_apply_settings(m.text, m.chat_id, m.user, s.cs, s.ui, t)}})

\* on_group_message, from the natural language settings on
settings_then_trigger(s, m, env, t) ==
    The({LET s1 == [s EXCEPT !.cs = d.cs, !.ui = d.ui,
                             !.out.applied = d.applied, !.out.changes = d.changes]
         IN IF d.applied # <<>> THEN reply(s1, "settings_ack")
            ELSE trigger(s1, m, env, t) :
           d \in {_detect_and_apply_settings(m.text, m.chat_id, m.user, s.cs, s.ui, t)}})

on_group_message_run(s, m, env, t) ==
    IF m.user = NoUser \/ m.is_bot THEN s
    ELSE LET s1 == [s EXCEPT !.us = upsert_user(@, m.user, m.username),
                             !.cm = add_chat_member(@, m.chat_id, m.user),
                             !.cs = touch_last_activity(@, m.chat_id, t)]
         IN IF m.reply_to = "bot_dossier"
            THEN reply([s1 EXCEPT !.us = set_user_bio(@, m.user, m.text)], "bio_ack")
            ELSE settings_then_trigger(s1, m, env, t)

RECURSIVE lstrip(_)
lstrip(text) == IF text # <<>> /\ IsSpace(Head(text)) THEN lstrip(Tail(text)) ELSE text

RECURSIVE rstrip(_)
rstrip(text) ==
    IF text # <<>> /\ IsSpace(text[Len(text)]) THEN rstrip(SubSeq(text, 1, Len(text) - 1))
    ELSE text

strip(text) == rstrip(lstrip(text))

\* _is_image_edit_request: never for a caption under 3 characters, else the
\* completion service's YES / NO (NO when it fails)
_is_image_edit_request(caption, env) ==
    IF caption = <<>> \/ Len(strip(caption)) < 3 THEN FALSE ELSE env.wants_edit

\* on_photo, from the download of the photo on
photo_reply(s, m, env, t) ==
    LET is_mention == _is_direct_mention(m)
        done(x) == IF is_mention THEN reset_count(x, m.chat_id) ELSE x
    IN IF _is_image_edit_request(m.text, env)
       THEN IF ~image_gen_allowed(s.log, t)
            THEN reply(s, "limit")
            ELSE LET s1 == reply(s, "wait")
                 IN IF env.image_ok
                    THEN done(reply([s1 EXCEPT !.log = increment_image_gen_count(@, t)],
                                    "image"))
                    ELSE done(reply(s1, "image_failed"))
       ELSE done(reply(s, "vision"))

on_photo_run(s, m, env, t) ==
    IF m.user = NoUser \/ m.is_bot THEN s
    ELSE LET s1 == [s EXCEPT !.us = upsert_user(@, m.user, m.username),
                             !.cm = add_chat_member(@, m.chat_id, m.user),
                             !.cs = touch_last_activity(_ensure_chat(@, m.chat_id, t),
                                                        m.chat_id, t)]
         IN IF ChatType(m.chat_id) = "group" /\ ~_is_direct_mention(m)
            THEN The({IF s2.cs[m.chat_id].message_count < s2.cs[m.chat_id].reply_frequency
                      THEN s2
                      ELSE photo_reply(reset_count(s2, m.chat_id), m, env, t) :
                        s2 \in {incr_count(s1, m.chat_id, t)}})
            ELSE photo_reply(s1, m, env, t)

\* on_voice, from the reply on
voice_reply(s, m, env, t) ==
    LET s1 == _ask_sheldon(s, m.chat_id, env.complete_ok, t)
    IN IF _is_direct_mention(m) THEN reset_count(s1, m.chat_id) ELSE s1

on_voice_run(s, m, env, t) ==
    IF m.user = NoUser \/ m.is_bot THEN s
    ELSE LET s1 == [s EXCEPT !.us = upsert_user(@, m.user, m.username),
                             !.cm = add_chat_member(@, m.chat_id, m.user),
                             !.cs = touch_last_activity(_ensure_chat(@, m.chat_id, t),
                                                        m.chat_id, t)]
             is_mention == _is_direct_mention(m)
         IN IF env.transcription = <<>>
            THEN IF is_mention THEN reply(s1, "white_noise") ELSE s1
            ELSE IF ChatType(m.chat_id) = "group" /\ ~is_mention
                 THEN The({IF s2.cs[m.chat_id].message_count
                                 < s2.cs[m.chat_id].reply_frequency
                           THEN s2
                           ELSE voice_reply(reset_count(s2, m.chat_id), m, env, t) :
                             s2 \in {incr_count(s1, m.chat_id, t)}})
                 ELSE voice_reply(s1, m, env, t)

on_private_message_run(s, m, env, t) ==
    IF m.user = NoUser THEN s
    ELSE _ask_sheldon([s EXCEPT !.us = upsert_user(@, m.user, m.username)],
                      m.chat_id, env.complete_ok, t)

\* str.isdigit(): non-empty and digits only
isdigit(text) == text # <<>> /\ \A i \in 1..Len(text) : IsDigit(text[i])

\* cmd_frequency: m.text is the command's argument (parts[1], <<>> when absent),
\* env.is_admin whether get_chat_member answers administrator or creator
cmd_frequency_run(s, m, env, t) ==
    IF m.user = NoUser THEN s
    ELSE IF ~env.is_admin THEN reply(s, "admins_only")
    ELSE IF ~isdigit(strip(m.text)) THEN reply(s, "usage")
    ELSE LET new_freq == int(strip(m.text))
         IN IF new_freq < 1 THEN reply(s, "at_least_1")
            ELSE reply([s EXCEPT !.cs = set_reply_frequency(@, m.chat_id, new_freq, t)],
                       "frequency_ack")

\* the handler named `handler` runs on message m: the tables after it, and in
\* `last` what it did, when, the chat's row before it (the defaults when the
\* row did not exist) and the day's image count before it
Handle(handler, result, m, env) ==
    \E r \in {result} :
    /\ process' = get_pool(process)
    /\ chat_settings' = r.cs
    /\ users' = r.us
    /\ chat_members' = r.cm
    /\ user_ignore' = r.ui
    /\ image_gen_log' = r.log
    /\ last' = [handler |-> handler, msg |-> m, env |-> env, at |-> now, out |-> r.out,
                existed |-> m.chat_id \in DOMAIN chat_settings,
                before |-> _ensure_chat(chat_settings, m.chat_id, now)[m.chat_id],
                images_before |-> get_image_gen_count_today(image_gen_log, now)]

on_group_message(m, env) ==
    /\ m.kind = "text" /\ ChatType(m.chat_id) = "group"
    /\ Handle("on_group_message", on_group_message_run(Store, m, env, now), m, env)

on_photo(m, env) ==
    /\ m.kind = "photo"
    /\ Handle("on_photo", on_photo_run(Store, m, env, now), m, env)

on_voice(m, env) ==
    /\ m.kind = "voice"
    /\ Handle("on_voice", on_voice_run(Store, m, env, now), m, env)

on_private_message(m, env) ==
    /\ m.kind = "text" /\ ChatType(m.chat_id) = "private"
    /\ Handle("on_private_message", on_private_message_run(Store, m, env, now), m, env)

cmd_frequency(m, env) ==
    /\ m.kind = "command"
    /\ Handle("cmd_frequency", cmd_frequency_run(Store, m, env, now), m, env)

(***************************************************************************)
(* The messages and service answers the specifications draw from.          *)
(***************************************************************************)
GroupChat == -100
Anna == 1           \* a user with a handle
Boris == 2          \* a user without a handle (username None)
Clara == 3          \* another user with a handle
OtherBot == 9       \* a sender with is_bot set
Sheldon == 8        \* the bot's own account: is_bot is set

Username(user) ==
    CASE user = Anna -> "anna"
      [] user = Clara -> "clara"
      [] user = OtherBot -> "other_bot"
      [] user = Sheldon -> "sheldon_bot"
      [] OTHER -> ""

Msg(kind, chat_id, user, text, reply_to, mention) ==
    [kind |-> kind, chat_id |-> chat_id, user |-> user, is_bot |-> (user \in {OtherBot, Sheldon}),
     username |-> Username(user), text |-> text, reply_to |-> reply_to,
     mention |-> mention]

Env(complete_ok, transcription, wants_edit, image_ok, is_admin) ==
    [complete_ok |-> complete_ok, transcription |-> transcription,
     wants_edit |-> wants_edit, image_ok |-> image_ok, is_admin |-> is_admin]

\* the completion service answers or fails; nothing else is asked
TextEnvs == {Env(ok, <<>>, FALSE, FALSE, FALSE) : ok \in BOOLEAN}

NoMsg == Msg("none", GroupChat, NoUser, <<>>, "none", FALSE)

Empty == <<>>

\* the process after on_startup: polling, the pool created by init_db
Running == [phase |-> "polling", pool |-> "open"]

InitLast == [handler |-> "none", msg |-> NoMsg, env |-> Env(TRUE, <<>>, FALSE, FALSE, FALSE),
             at |-> 0, out |-> NoOut, existed |-> FALSE, before |-> DefaultRow(0),
             images_before |-> 0]
InitHist == [n |-> 0, r |-> 0, fresh |-> TRUE, ignore |-> Empty, poked |-> Empty,
             bios |-> Empty, calls |-> Empty]
NoPoke == [chat |-> 0, kind |-> "none", target |-> NoUser,
           first |-> "none", pick |-> NoUser, second |-> "none"]
InitSched == [pc |-> "off", known |-> {}, due |-> {}, wake_at |-> 0, at |-> 0,
              poke |-> NoPoke]
InitTasks == Empty

\* the process has just started on an empty database
InitEmpty ==
    /\ now = 0
    /\ chat_settings = Empty
    /\ users = Empty
    /\ chat_members = {}
    /\ user_ignore = Empty
    /\ image_gen_log = Empty
    /\ last = InitLast
    /\ hist = InitHist
    /\ sched = InitSched
    /\ tasks = InitTasks
    /\ process = Running

(***************************************************************************)
(* Spec: the group handlers (text, photo, voice) run one after another on  *)
(* one group chat, at one instant.                                         *)
(***************************************************************************)
SpecTexts == {T_plain, T_pishi_chashche}

GroupTextMessages ==
    {Msg("text", GroupChat, Anna, x, "none", a) : x \in SpecTexts, a \in BOOLEAN}
    \cup {Msg("text", GroupChat, Anna, x, "bot", FALSE) : x \in SpecTexts}
    \cup {Msg("text", GroupChat, Anna, x, "bot_dossier", FALSE) : x \in SpecTexts}
    \cup {Msg("text", GroupChat, OtherBot, x, "none", TRUE) : x \in SpecTexts}

PhotoMessages ==
    {Msg("photo", GroupChat, Anna, T_plain, "none", a) : a \in BOOLEAN}

\* the caption is an edit request and the image is generated, or is not
PhotoEnvs == {Env(TRUE, <<>>, FALSE, FALSE, FALSE), Env(TRUE, <<>>, TRUE, FALSE, FALSE),
              Env(TRUE, <<>>, TRUE, TRUE, FALSE)}

VoiceMessages ==
    {Msg("voice", GroupChat, Anna, <<>>, r, FALSE) : r \in {"none", "bot"}}

\* the voice is not transcribed, or is: to a plain sentence, to "pishi chashche"
VoiceEnvs == {Env(TRUE, x, FALSE, FALSE, FALSE) : x \in {<<>>, T_plain, T_pishi_chashche}}

Next ==
    /\ \/ \E m \in GroupTextMessages, env \in TextEnvs : on_group_message(m, env)
       \/ \E m \in PhotoMessages, env \in PhotoEnvs : on_photo(m, env)
       \/ \E m \in VoiceMessages, env \in VoiceEnvs : on_voice(m, env)
    /\ UNCHANGED <<now, hist, sched, tasks>>

Spec == InitEmpty /\ [][Next]_vars

\* the text matches at least one entry of SETTINGS_PATTERNS
MatchesSettings(text) == \E k \in 1..Len(SETTINGS_PATTERNS) : pattern_search(k, text).ok

\* the handler passed the sender check
FromAUser(m) == m.user # NoUser /\ ~m.is_bot

MessageCount(chat_id) ==
    IF chat_id \in DOMAIN chat_settings THEN chat_settings[chat_id].message_count ELSE -1

GroupHandlers == {"on_group_message", "on_photo", "on_voice"}

\* the last handler run was a group message that is a direct mention
LastIsGroupMention ==
    /\ last.handler \in GroupHandlers
    /\ ChatType(last.msg.chat_id) = "group"
    /\ _is_direct_mention(last.msg)

\* ... and the handler took it to its reply stage
LastReachedReply ==
    /\ FromAUser(last.msg)
    /\ last.handler = "on_group_message" =>
          last.msg.reply_to # "bot_dossier" /\ ~MatchesSettings(last.msg.text)
    /\ last.handler = "on_voice" => last.env.transcription # <<>>
    /\ last.handler = "on_photo" =>
          ~(/\ _is_image_edit_request(last.msg.text, last.env)
            /\ last.images_before >= IMAGE_GEN_DAILY_LIMIT)

C3_Original ==
    (/\ last.handler = "on_group_message" /\ MatchesSettings(last.msg.text)
     /\ FromAUser(last.msg)) =>
        /\ last.out.replies = <<"settings_ack">>
        /\ last.out.incrs = 0 /\ last.out.resets = 0 /\ last.out.asks = 0
        /\ MessageCount(last.msg.chat_id) = last.before.message_count

\* C3 amended: for a group text message that matches a settings pattern,
\* increment_and_get, reset_message_count and the completion service are not
\* invoked and messageCount is unchanged; the acknowledgment is the only
\* response when the sender is a user and the message is not a dossier reply
C3_SettingsShortCircuit ==
    (last.handler = "on_group_message" /\ MatchesSettings(last.msg.text)) =>
        /\ last.out.incrs = 0 /\ last.out.resets = 0 /\ last.out.asks = 0
        /\ FromAUser(last.msg) =>
              MessageCount(last.msg.chat_id) = last.before.message_count
        /\ (FromAUser(last.msg) /\ last.msg.reply_to # "bot_dossier") =>
              last.out.replies = <<"settings_ack">>

C3_Witness ==
    /\ last.handler = "on_group_message" /\ MatchesSettings(last.msg.text)
    /\ _is_direct_mention(last.msg)
    /\ last.out.replies = <<"settings_ack">>
    /\ last.before.message_count > 0
    /\ MessageCount(last.msg.chat_id) = last.before.message_count

(***************************************************************************)
(* SpecCadence: ambient text messages (no mention, no settings pattern)    *)
(* of one group chat, handled one after another.  The chat starts without  *)
(* a row (a fresh chat) or with a row whose counter is 0 and whose         *)
(* frequency was set earlier; hist tallies the messages and the replies.   *)
(***************************************************************************)
MaxFrequency == 6
MaxMessages == 13

AmbientTexts == {T_plain, T_ignore_none, T_ignore_1_den}

AmbientMessages ==
    {Msg("text", GroupChat, u, x, r, FALSE) :
        u \in {Anna, Boris}, x \in AmbientTexts, r \in {"none", "user"}}

InitCadence ==
    /\ now = 0
    /\ chat_settings \in
          {Empty} \cup {(GroupChat :> [DefaultRow(0) EXCEPT !.reply_frequency = f]) :
                           f \in 1..MaxFrequency}
    /\ users = Empty
    /\ chat_members = {}
    /\ user_ignore = Empty
    /\ image_gen_log = Empty
    /\ last = InitLast
    /\ hist = [InitHist EXCEPT !.fresh = (chat_settings = Empty)]
    /\ sched = InitSched
    /\ tasks = InitTasks
    /\ process = Running

AmbientMessage ==
    /\ hist.n < MaxMessages
    /\ \E m \in AmbientMessages, env \in TextEnvs : on_group_message(m, env)
    /\ hist' = [hist EXCEPT !.n = @ + 1, !.r = @ + Len(last'.out.replies)]
    /\ UNCHANGED <<now, sched, tasks>>

NextCadence == AmbientMessage

SpecCadence == InitCadence /\ [][NextCadence]_vars

ReplyFrequency(chat_id) ==
    IF chat_id \in DOMAIN chat_settings THEN chat_settings[chat_id].reply_frequency ELSE 5

\* C1: with frequency f unchanged (5 for a fresh chat), of the ambient text
\* messages handled so far exactly every f-th one produced a reply, exactly
\* one, and left messageCount at 0; the others produced none
C1_ReplyOnEveryFthMessage ==
    LET f == ReplyFrequency(GroupChat)
    IN /\ hist.fresh => f = 5
       /\ hist.r = hist.n \div f
       /\ hist.n > 0 =>
            /\ MessageCount(GroupChat) = hist.n % f
            /\ Len(last.out.replies) = (IF hist.n % f = 0 THEN 1 ELSE 0)
            /\ last.out.asks = Len(last.out.replies)

\* the fresh chat after its 9th message: one reply so far, the one to the 5th
C1_Witness ==
    /\ hist.fresh /\ hist.n = 9 /\ hist.r = 1
    /\ MessageCount(GroupChat) = 4
    /\ last.out.replies = <<>>

(***************************************************************************)
(* SpecSettings: settings requests of a user in one group chat, handled    *)
(* one after another.  "Reply less" requests are taken only while the      *)
(* frequency is at most MaxReplyFrequency.                                 *)
(***************************************************************************)
MaxReplyFrequency == 16

SettingsTexts ==
    {T_pishi_chashche, T_pishi_rezhe, T_chashche_rezhe, T_pishi_podrobnee,
     T_koroche_i_rezhe, T_koroche_pishi_rezhe, T_zatknis_rezhe_koroche, T_dlinno_zatknis}

SettingsMessages ==
    {Msg("text", GroupChat, Anna, x, "none", a) : x \in SettingsTexts, a \in BOOLEAN}

\* entry k of the table has this action and matches the text
MatchesAction(text, action) ==
    \E k \in 1..Len(SETTINGS_PATTERNS) :
        SETTINGS_PATTERNS[k].action = action /\ pattern_search(k, text).ok

SettingsMessage ==
    /\ \E m \in SettingsMessages :
          /\ MatchesAction(m.text, "freq_down") =>
                ReplyFrequency(GroupChat) <= MaxReplyFrequency
          /\ on_group_message(m, Env(TRUE, <<>>, FALSE, FALSE, FALSE))
    /\ UNCHANGED <<now, hist, sched, tasks>>

NextSettings == SettingsMessage

SpecSettings == InitEmpty /\ [][NextSettings]_vars

\* how many of the acknowledgment's lines are about this kind of effect
EffectLines(changes, kind) == Cardinality({i \in 1..Len(changes) : changes[i][1] = kind})

\* C4: a text that matches a length-down pattern and a frequency-down pattern
\* (one or several entries of each) gets a single acknowledgment with the
\* length effect once and the frequency effect once, and maxResponseLines and
\* replyFrequency are each adjusted once (one line shorter, 5 messages rarer)
C4_Original ==
    (/\ last.handler = "on_group_message" /\ FromAUser(last.msg)
     /\ MatchesAction(last.msg.text, "length_down")
     /\ MatchesAction(last.msg.text, "freq_down")) =>
        /\ last.out.replies = <<"settings_ack">>
        /\ EffectLines(last.out.changes, "length") = 1
        /\ EffectLines(last.out.changes, "freq") = 1
        /\ chat_settings[GroupChat].max_response_lines
              = max(1, last.before.max_response_lines - 1)
        /\ chat_settings[GroupChat].reply_frequency = last.before.reply_frequency + 5

(***************************************************************************)
(* SpecAdjust: the settings scan step by step, with the handlers of        *)
(* several messages in progress at once (aiogram runs each update's        *)
(* handler as a task, and a task gives way at every await).  An adjustment *)
(* of humour, length or "reply more" first reads the settings              *)
(* (get_full_chat_settings), then writes the value it computed from what   *)
(* it read (set_humor_level, set_max_response_lines, the UPDATE of         *)
(* reply_frequency); "reply less" is the single UPDATE of                  *)
(* increase_reply_frequency.  /frequency runs between any two steps.       *)
(* tasks[i] is the scan of task i: the text, the entry k it is at, and     *)
(* between the read and the write the value new_val to be written.         *)
(***************************************************************************)
\* the handlers in progress at once
TaskIds == {1, 2}
MaxRequests == 5

Idle == [pc |-> "idle", text |-> <<>>, k |-> 0, new_val |-> 0]

AdjustTexts == {T_shuti_chashche, T_plohaya_shutka, T_pishi_bolshe, T_koroche_pishi_rezhe}

\* /frequency 0, /frequency 1 and /frequency x from an administrator,
\* /frequency 1 from someone else
FrequencyCommands ==
    {Msg("command", GroupChat, Anna, arg, "none", FALSE) : arg \in {<<"0">>, <<"1">>, <<"x">>}}
    \cup {Msg("command", GroupChat, Boris, <<"1">>, "none", FALSE)}

\* the first entry from k on that matches the text, 0 when there is none
NextMatch(text, k) ==
    LET K == {j \in k..Len(SETTINGS_PATTERNS) : pattern_search(j, text).ok}
    IN IF K = {} THEN 0 ELSE Min(K)

\* the scan moves on from entry k: to the next matching entry, or it is over
Advance(task) ==
    LET k == NextMatch(task.text, task.k + 1)
    IN IF k = 0 THEN Idle ELSE [pc |-> "read", text |-> task.text, k |-> k, new_val |-> 0]

InitAdjust ==
    /\ now = 0
    /\ chat_settings = Empty
    /\ users = Empty
    /\ chat_members = {}
    /\ user_ignore = Empty
    /\ image_gen_log = Empty
    /\ last = InitLast
    /\ hist = InitHist
    /\ sched = InitSched
    /\ tasks = [i \in TaskIds |-> Idle]
    /\ process = Running

\* a settings request arrives and its handler starts scanning
Receive(i, text) ==
    /\ tasks[i].pc = "idle"
    /\ hist.n < MaxRequests
    /\ MatchesAction(text, "freq_down") => ReplyFrequency(GroupChat) <= MaxReplyFrequency
    /\ tasks' = [tasks EXCEPT ![i] = Advance([Idle EXCEPT !.text = text])]
    /\ hist' = [hist EXCEPT !.n = @ + 1]
    /\ UNCHANGED <<now, chat_settings, users, chat_members, user_ignore, process, image_gen_log,
                   last, sched>>

\* settings = await db.get_full_chat_settings(chat_id), and new_val from it
ReadSettings(i) ==
    LET entry == SETTINGS_PATTERNS[tasks[i].k]
    IN /\ tasks[i].pc = "read"
       /\ entry.action \in {"humor_up", "humor_down", "freq_up", "length_down", "length_up"}
       /\ \E settings \in {get_full_chat_settings(chat_settings, GroupChat, now)} :
            /\ chat_settings' = settings
            /\ tasks' = [tasks EXCEPT ![i].pc = "write",
                  ![i].new_val =
                     CASE entry.action = "humor_up" ->
                            humor_up_value(settings, GroupChat, entry.delta)
                       [] entry.action = "humor_down" ->
                            humor_down_value(settings, GroupChat, entry.delta)
                       [] entry.action = "freq_up" ->
                            freq_up_value(settings, GroupChat, entry.delta)
                       [] entry.action = "length_down" ->
                            length_down_value(settings, GroupChat, entry.delta)
                       [] entry.action = "length_up" ->
                            length_up_value(settings, GroupChat, entry.delta)]
       /\ UNCHANGED <<now, users, chat_members, user_ignore, process, image_gen_log, last, hist,
                      sched>>

\* await db.set_humor_level(chat_id, new_val) and the like
WriteSetting(i) ==
    LET entry == SETTINGS_PATTERNS[tasks[i].k]
        new_val == tasks[i].new_val
    IN /\ tasks[i].pc = "write"
       /\ chat_settings' =
             CASE entry.action \in {"humor_up", "humor_down"} ->
                    set_humor_level(chat_settings, GroupChat, new_val, now)
               [] entry.action = "freq_up" ->
                    set_reply_frequency(chat_settings, GroupChat, new_val, now)
               [] entry.action \in {"length_down", "length_up"} ->
                    set_max_response_lines(chat_settings, GroupChat, new_val, now)
       /\ tasks' = [tasks EXCEPT ![i] = Advance(@)]
       /\ UNCHANGED <<now, users, chat_members, user_ignore, process, image_gen_log, last, hist,
                      sched>>

\* new_freq = await db.increase_reply_frequency(chat_id, delta)
IncreaseFrequency(i) ==
    LET entry == SETTINGS_PATTERNS[tasks[i].k]
    IN /\ tasks[i].pc = "read"
       /\ entry.action = "freq_down"
       /\ chat_settings' = increase_reply_frequency(chat_settings, GroupChat, entry.delta, now)
       /\ tasks' = [tasks EXCEPT ![i] = Advance(@)]
       /\ UNCHANGED <<now, users, chat_members, user_ignore, process, image_gen_log, last, hist,
                      sched>>

\* /frequency, from an administrator or not
FrequencyCommand ==
    /\ hist.n < MaxRequests
    /\ \E m \in FrequencyCommands :
          cmd_frequency(m, Env(TRUE, <<>>, FALSE, FALSE, m.user = Anna))
    /\ hist' = [hist EXCEPT !.n = @ + 1]
    /\ UNCHANGED <<now, sched, tasks>>

NextAdjust ==
    \/ \E i \in TaskIds, text \in AdjustTexts : Receive(i, text)
    \/ \E i \in TaskIds : ReadSettings(i)
    \/ \E i \in TaskIds : WriteSetting(i)
    \/ \E i \in TaskIds : IncreaseFrequency(i)
    \/ FrequencyCommand

SpecAdjust == InitAdjust /\ [][NextAdjust]_vars

C6_FrequencyAtLeastOne ==
    \A c \in DOMAIN chat_settings : chat_settings[c].reply_frequency >= 1

\* the frequency is 1, /frequency 0 has just been refused, and a task is about
\* to write the result of another "reply more"
C6_Witness ==
    /\ GroupChat \in DOMAIN chat_settings
    /\ chat_settings[GroupChat].reply_frequency = 1
    /\ last.handler = "cmd_frequency" /\ last.out.replies = <<"at_least_1">>
    /\ last.before.reply_frequency = 1
    /\ \E i \in TaskIds :
          /\ tasks[i].pc = "write" /\ SETTINGS_PATTERNS[tasks[i].k].action = "freq_up"
          /\ tasks[i].new_val = 1

(***************************************************************************)
(* SpecIgnore: "ignore me" requests of two users in one group chat, and    *)
(* the clock.  The clock moves through IgnoreInstants, which holds the     *)
(* instants at which the requests made at 0 and at 1 expire, and instants  *)
(* just before and after them.  hist.ignore keeps, for each sender of a    *)
(* request with a day count, when the request is meant to expire: the      *)
(* time of the request plus the count written in the text, held to 1..30.  *)
(***************************************************************************)
MaxIgnoreMessages == 3

IgnoreInstants ==
    {0, 1, MinutesPerDay - 1, MinutesPerDay, MinutesPerDay + 1, 2 * MinutesPerDay,
     7 * MinutesPerDay, 30 * MinutesPerDay, 30 * MinutesPerDay + 1}

\* the requests that carry a day count
IgnoreRequests == {T_ignore_0, T_ignore_2, T_ignore_45, T_ignore_7_koroche}

\* the day count written in the text
RequestedDays(text) ==
    CASE text = T_ignore_0 -> 0
      [] text = T_ignore_2 -> 2
      [] text = T_ignore_45 -> 45
      [] text = T_ignore_7_koroche -> 7

IgnoreMessages ==
    {Msg("text", GroupChat, Anna, x, "none", FALSE) :
        x \in IgnoreRequests \cup {T_ignore_none, T_ignore_1_den}}
    \cup {Msg("text", GroupChat, Boris, x, "none", TRUE) : x \in {T_ignore_2, T_ignore_none}}

ExpectedUntil(text, t) ==
    t + (IF RequestedDays(text) < 1 THEN 1
         ELSE IF RequestedDays(text) > 30 THEN 30
         ELSE RequestedDays(text)) * MinutesPerDay

InitIgnore == InitEmpty

IgnoreMessage ==
    /\ hist.n < MaxIgnoreMessages
    /\ \E m \in IgnoreMessages :
          /\ on_group_message(m, Env(TRUE, <<>>, FALSE, FALSE, FALSE))
          /\ hist' = [hist EXCEPT
                !.n = @ + 1,
                !.ignore = IF m.text \in IgnoreRequests
                           THEN [p \in DOMAIN @ \cup {<<m.chat_id, m.user>>} |->
                                    IF p = <<m.chat_id, m.user>>
                                    THEN ExpectedUntil(m.text, now) ELSE @[p]]
                           ELSE @]
    /\ UNCHANGED <<now, sched, tasks>>

\* time passes
TickIgnore ==
    /\ \E t \in IgnoreInstants : t > now /\ now' = t
    /\ UNCHANGED <<chat_settings, users, chat_members, user_ignore, process, image_gen_log, last,
                   hist, sched, tasks>>

NextIgnore == IgnoreMessage \/ TickIgnore

SpecIgnore == InitIgnore /\ [][NextIgnore]_vars

LastSender == <<last.msg.chat_id, last.msg.user>>

\* C7: the ignore phrase without a day count is not refused: it leaves an
\* entry for the sender in that chat that lasts 1 day
C7_Original ==
    (/\ last.handler = "on_group_message" /\ FromAUser(last.msg)
     /\ last.msg.text = T_ignore_none) =>
        /\ LastSender \in DOMAIN user_ignore
        /\ user_ignore[LastSender] = last.at + MinutesPerDay

\* C8: for the day count n written in an ignore request (0, 2, 7, 45), the
\* stored ignoreUntil is the time of the request plus min(30, max(1, n)) days
C8_IgnoreUntilClamped ==
    (/\ last.handler = "on_group_message" /\ FromAUser(last.msg)
     /\ last.msg.text \in IgnoreRequests) =>
        /\ LastSender \in DOMAIN user_ignore
        /\ user_ignore[LastSender] = ExpectedUntil(last.msg.text, last.at)

\* a request for 45 days, made after time 0, is stored as 30 days; another
\* user's request for 2 days is stored as 2
C8_Witness ==
    /\ last.handler = "on_group_message" /\ last.msg.text = T_ignore_45
    /\ last.at > 0
    /\ LastSender \in DOMAIN user_ignore
    /\ user_ignore[LastSender] = last.at + 30 * MinutesPerDay
    /\ <<GroupChat, Boris>> \in DOMAIN user_ignore
    /\ user_ignore[<<GroupChat, Boris>>] \in {2 * MinutesPerDay, 2 * MinutesPerDay + 1}

\* C9: isIgnored(chat, user, now) is true exactly when an entry exists with
\* ignoreUntil > now; once a user has asked, the entry stays, and isIgnored is
\* true from the request until the clock reaches the expiry and false from
\* then on
C9_IgnoredUntilExpiry ==
    \A u \in {Anna, Boris} :
        LET p == <<GroupChat, u>>
        IN /\ is_user_ignored(user_ignore, GroupChat, u, now)
                <=> (p \in DOMAIN user_ignore /\ user_ignore[p] > now)
           /\ p \in DOMAIN hist.ignore =>
                /\ p \in DOMAIN user_ignore
                /\ is_user_ignored(user_ignore, GroupChat, u, now) <=> now < hist.ignore[p]

\* the clock is exactly at the expiry of one user's request: the entry is
\* there and the user is no longer ignored, while the other user still is
C9_Witness ==
    /\ <<GroupChat, Anna>> \in DOMAIN hist.ignore
    /\ now = hist.ignore[<<GroupChat, Anna>>]
    /\ <<GroupChat, Anna>> \in DOMAIN user_ignore
    /\ ~is_user_ignored(user_ignore, GroupChat, Anna, now)
    /\ is_user_ignored(user_ignore, GroupChat, Boris, now)

(***************************************************************************)
(* bot.py: _scheduler_loop.  sched.pc is where the task is: "boot" (the    *)
(* process has started), "announce" (the start-up pass over all chats),    *)
(* "sleep" (asyncio.sleep(CHECK_INTERVAL), until wake_at), "cycle" (going  *)
(* through the due chats it fetched at sched.at).  sched.due holds the     *)
(* chats the running loop has still to go through, sched.poke the last     *)
(* message the cycle sent.                                                 *)
(***************************************************************************)
POKE_MIN_MINUTES == 90
POKE_MAX_MINUTES == 48 * 60
\* 60 seconds, in minutes
CHECK_INTERVAL == 1

\* mutant: the delay drawn from one poll interval on
Mutant_random_poke_delay_short == {CHECK_INTERVAL, POKE_MAX_MINUTES}

\* random.randint(POKE_MIN_MINUTES, POKE_MAX_MINUTES): its two extremes
_random_poke_delay == {POKE_MIN_MINUTES, POKE_MAX_MINUTES}

\* members the scheduler may address: not ignored now
members_no_bio(s, chat_id, t) ==
    {u \in get_members_without_bio(s.cm, s.us, chat_id) :
        ~is_user_ignored(s.ui, chat_id, u, t)}

\* mutant: the members with a handle, ignored or not
Mutant_with_username_unfiltered(s, chat_id, t) ==
    {u \in get_chat_members(s.cm, s.us, chat_id) : s.us[u].username # ""}

with_username(s, chat_id, t) ==
    {u \in get_chat_members(s.cm, s.us, chat_id) :
        s.us[u].username # "" /\ ~is_user_ignored(s.ui, chat_id, u, t)}

\* mutant: the bio question goes to whoever was picked, handle or not
Mutant_Pokes_no_handle_test(s, chat_id, t) ==
    LET a == members_no_bio(s, chat_id, t)
        b == with_username(s, chat_id, t)
        firsts == IF a = {} THEN {[NoPoke EXCEPT !.chat = chat_id]}
                  ELSE {[NoPoke EXCEPT !.chat = chat_id, !.first = "above"]}
                       \cup {[NoPoke EXCEPT !.chat = chat_id, !.first = "below",
                                            !.pick = u] : u \in a}
        rest(p) == IF b = {} THEN {[p EXCEPT !.kind = "silence_breaker"]}
                   ELSE {[p EXCEPT !.kind = "silence_breaker", !.second = "above"]}
                        \cup {[p EXCEPT !.kind = "question", !.second = "below",
                                        !.target = u] : u \in b}
    IN UNION {IF p.first = "below"
              THEN {[p EXCEPT !.kind = "bio_question", !.target = p.pick]}
              ELSE rest(p) : p \in firsts}

\* the message a cycle sends to a due chat, with the draws that led to it.
\* first, second: random.random() against 0.6 and 0.55, "none" when the
\* draw is not made; pick: random.choice(members_no_bio).  A question to the
\* picked member without a bio if that member has a handle; else a question
\* to a member with a handle; else a silence breaker
Pokes(s, chat_id, t) ==
    LET a == members_no_bio(s, chat_id, t)
        b == with_username(s, chat_id, t)
        firsts == IF a = {} THEN {[NoPoke EXCEPT !.chat = chat_id]}
                  ELSE {[NoPoke EXCEPT !.chat = chat_id, !.first = "above"]}
                       \cup {[NoPoke EXCEPT !.chat = chat_id, !.first = "below",
                                            !.pick = u] : u \in a}
        rest(p) == IF b = {} THEN {[p EXCEPT !.kind = "silence_breaker"]}
                   ELSE {[p EXCEPT !.kind = "silence_breaker", !.second = "above"]}
                        \cup {[p EXCEPT !.kind = "question", !.second = "below",
                                        !.target = u] : u \in b}
    IN UNION {IF p.first = "below" /\ s.us[p.pick].username # ""
              THEN {[p EXCEPT !.kind = "bio_question", !.target = p.pick]}
              ELSE rest(p) : p \in firsts}

\* the message of the start-up pass to a chat
Announcement(chat_id) == [NoPoke EXCEPT !.chat = chat_id, !.kind = "announcement"]

\* the poke times of a chat so far, with one more
poked_at(h, chat_id, t) ==
    [c \in DOMAIN h \cup {chat_id} |->
        IF c = chat_id THEN Append(IF c \in DOMAIN h THEN h[c] ELSE <<>>, t) ELSE h[c]]

\* chat_ids = await db.get_all_chat_ids()
SchedBoot ==
    /\ sched.pc = "boot"
    /\ sched' = [sched EXCEPT !.pc = "announce", !.at = now,
                              !.known = get_all_chat_ids(chat_settings),
                              !.due = get_all_chat_ids(chat_settings)]
    /\ process' = get_pool(process)
    /\ UNCHANGED <<now, chat_settings, users, chat_members, user_ignore, image_gen_log,
                   last, hist, tasks>>

\* mutant: set_next_poke_at moved into the try, after the delivery
Mutant_SchedAnnounce_in_try(chat_id) ==
    /\ sched.pc = "announce"
    /\ chat_id \in sched.due
    /\ IF chat_id >= 0
       THEN /\ sched' = [sched EXCEPT !.due = @ \ {chat_id}]
            /\ UNCHANGED <<chat_settings, process>>
       ELSE \E delay \in _random_poke_delay, delivered \in BOOLEAN :
               /\ sched' = [sched EXCEPT !.due = @ \ {chat_id},
                                         !.poke = IF delivered THEN Announcement(chat_id)
                                                  ELSE @]
               /\ chat_settings' = IF delivered
                                   THEN set_next_poke_at(chat_settings, chat_id, delay, now)
                                   ELSE chat_settings
               /\ process' = get_pool(process)
    /\ UNCHANGED <<now, users, chat_members, user_ignore, image_gen_log, last, hist,
                   tasks>>

\* one iteration of the start-up pass: private chats are skipped, a group
\* gets the announcement, unless its generation or delivery fails, and its
\* first poke time
SchedAnnounce(chat_id) ==
    /\ sched.pc = "announce"
    /\ chat_id \in sched.due
    /\ IF chat_id >= 0
       THEN /\ sched' = [sched EXCEPT !.due = @ \ {chat_id}]
            /\ UNCHANGED <<chat_settings, process>>
       ELSE \E delay \in _random_poke_delay, delivered \in BOOLEAN :
               /\ sched' = [sched EXCEPT !.due = @ \ {chat_id},
                                         !.poke = IF delivered THEN Announcement(chat_id)
                                                  ELSE @]
               /\ chat_settings' = set_next_poke_at(chat_settings, chat_id, delay, now)
               /\ process' = get_pool(process)
    /\ UNCHANGED <<now, users, chat_members, user_ignore, image_gen_log, last, hist,
                   tasks>>

\* the loop is through (start-up pass or cycle): await asyncio.sleep(CHECK_INTERVAL)
SchedSleep ==
    /\ sched.pc \in {"announce", "cycle"}
    /\ sched.due = {}
    /\ sched' = [InitSched EXCEPT !.pc = "sleep", !.wake_at = now + CHECK_INTERVAL]
    /\ UNCHANGED <<now, chat_settings, users, chat_members, user_ignore, process,
                   image_gen_log, last, hist, tasks>>

\* due_chats = await db.get_chats_due_for_poke()
SchedPoll ==
    /\ sched.pc = "sleep"
    /\ now >= sched.wake_at
    /\ sched' = [sched EXCEPT !.pc = "cycle", !.at = now,
                              !.due = get_chats_due_for_poke(chat_settings, now)]
    /\ process' = get_pool(process)
    /\ UNCHANGED <<now, chat_settings, users, chat_members, user_ignore, image_gen_log,
                   last, hist, tasks>>

\* mutant: the cycle without "if chat_id >= 0: continue"
Mutant_SchedPoke_every_chat(chat_id) ==
    /\ sched.pc = "cycle"
    /\ chat_id \in sched.due
    /\ \E poke \in Pokes(Store, chat_id, now), delay \in _random_poke_delay :
          /\ sched' = [sched EXCEPT !.due = @ \ {chat_id}, !.poke = poke]
          /\ chat_settings' =
                touch_last_activity(
                   set_next_poke_at(chat_settings, chat_id, delay, now), chat_id, now)
    /\ hist' = [hist EXCEPT !.poked = poked_at(@, chat_id, now)]
    /\ process' = get_pool(process)
    /\ UNCHANGED <<now, users, chat_members, user_ignore, image_gen_log, last, tasks>>

\* one iteration over due_chats: private chats are skipped, a group gets a
\* message, a new poke time and its activity touched
SchedPoke(chat_id) ==
    /\ sched.pc = "cycle"
    /\ chat_id \in sched.due
    /\ IF chat_id >= 0
       THEN /\ sched' = [sched EXCEPT !.due = @ \ {chat_id}]
            /\ UNCHANGED <<chat_settings, hist, process>>
       ELSE \E poke \in Pokes(Store, chat_id, now), delay \in _random_poke_delay :
               /\ sched' = [sched EXCEPT !.due = @ \ {chat_id}, !.poke = poke]
               /\ chat_settings' =
                     touch_last_activity(
                        set_next_poke_at(chat_settings, chat_id, delay, now), chat_id, now)
               /\ hist' = [hist EXCEPT !.poked = poked_at(@, chat_id, now)]
               /\ process' = get_pool(process)
    /\ UNCHANGED <<now, users, chat_members, user_ignore, image_gen_log, last, tasks>>

\* a call of the cycle raises (the completion service, Telegram): the except
\* clause around the whole cycle logs it and the rest of due_chats is dropped
SchedError ==
    /\ sched.pc = "cycle"
    /\ \E chat_id \in sched.due : chat_id < 0
    /\ sched' = [sched EXCEPT !.due = {}]
    /\ UNCHANGED <<now, chat_settings, users, chat_members, user_ignore, process, image_gen_log,
                   last, hist, tasks>>

\* a call of the start-up pass outside its try raises (the database:
\* get_all_chat_ids, set_next_poke_at): the exception leaves _scheduler_loop
\* and the task is over
SchedCrash ==
    /\ \/ sched.pc = "boot"
       \/ sched.pc = "announce" /\ \E chat_id \in sched.due : chat_id < 0
    /\ sched' = [InitSched EXCEPT !.pc = "dead"]
    /\ UNCHANGED <<now, chat_settings, users, chat_members, user_ignore, process, image_gen_log,
                   last, hist, tasks>>

(***************************************************************************)
(* SpecPoke: the scheduler, the clock, and mentions in two group chats.   *)
(* The process starts on an empty database and is restarted (a deploy) at  *)
(* any time, the database staying.                                         *)
(* PokeInstants holds the instants at which the pokes scheduled at 0 and   *)
(* one minute after that poke time fall due with the shorter delay.        *)
(***************************************************************************)
MaxPokeMessages == 3

OtherGroup == -200

PokeInstants ==
    {0, POKE_MIN_MINUTES, POKE_MIN_MINUTES + 1, 2 * POKE_MIN_MINUTES + 1}

PokeMessages ==
    {Msg("text", GroupChat, Anna, T_plain, "none", TRUE),
     Msg("text", OtherGroup, Boris, T_plain, "none", TRUE)}

InitPoke ==
    /\ now = 0
    /\ chat_settings = Empty
    /\ users = Empty
    /\ chat_members = {}
    /\ user_ignore = Empty
    /\ image_gen_log = Empty
    /\ last = InitLast
    /\ hist = InitHist
    /\ sched = [InitSched EXCEPT !.pc = "boot"]
    /\ tasks = InitTasks
    /\ process = Running

PokeMessage ==
    /\ hist.n < MaxPokeMessages
    /\ \E m \in PokeMessages :
          on_group_message(m, Env(TRUE, <<>>, FALSE, FALSE, FALSE))
    /\ hist' = [hist EXCEPT !.n = @ + 1]
    /\ UNCHANGED <<now, sched, tasks>>

TickPoke ==
    /\ \E t \in PokeInstants : t > now /\ now' = t
    /\ UNCHANGED <<chat_settings, users, chat_members, user_ignore, process, image_gen_log, last,
                   hist, sched, tasks>>

\* the process is stopped and started again
Restart ==
    /\ sched.pc # "boot"
    /\ sched' = [InitSched EXCEPT !.pc = "boot"]
    /\ UNCHANGED <<now, chat_settings, users, chat_members, user_ignore, process, image_gen_log,
                   last, hist, tasks>>

NextPoke ==
    \/ PokeMessage
    \/ TickPoke
    \/ Restart
    \/ SchedBoot
    \/ \E c \in sched.due : SchedAnnounce(c)
    \/ SchedSleep
    \/ SchedPoll
    \/ \E c \in sched.due : SchedPoke(c)
    \/ SchedError
    \/ SchedCrash

SpecPoke == InitPoke /\ [][NextPoke]_vars

\* the poke time of the chat has come and nothing has happened in the chat
\* at or after it
PokeTimePassedInSilence(chat_id) ==
    /\ chat_settings[chat_id].next_poke_at <= now
    /\ chat_settings[chat_id].last_activity < chat_settings[chat_id].next_poke_at

\* C10: what the scheduler fetches as due for a poke is exactly the chats
\* with nextPokeAt <= now and lastActivityAt < nextPokeAt; a chat whose last
\* activity is at or after its poke time is never among them
C10_DueForPoke ==
    [][(sched.pc = "sleep" /\ sched'.pc = "cycle") =>
          sched'.due = {c \in DOMAIN chat_settings : PokeTimePassedInSilence(c)}]_vars

\* the scheduler has just fetched: one group is due; the other, given the
\* same poke time by the start-up pass, was active after that time and is
\* left out
C10_Witness ==
    /\ sched.pc = "cycle" /\ sched.at = now
    /\ sched.due = {GroupChat}
    /\ PokeTimePassedInSilence(GroupChat)
    /\ OtherGroup \in DOMAIN chat_settings
    /\ chat_settings[OtherGroup].next_poke_at = 2 * POKE_MIN_MINUTES
    /\ chat_settings[OtherGroup].next_poke_at <= now
    /\ chat_settings[OtherGroup].last_activity > chat_settings[OtherGroup].next_poke_at

\* the last message handled is a user's message in the group chat_id and it
\* came after the call of set_next_poke_at that produced the chat's present
\* poke time, whichever delay that call drew, and before that poke time
ActiveAfterScheduling(chat_id) ==
    /\ last.handler = "on_group_message"
    /\ last.msg.chat_id = chat_id
    /\ FromAUser(last.msg)
    /\ chat_settings[chat_id].last_activity = last.at
    /\ \A delay \in _random_poke_delay :
          chat_settings[chat_id].next_poke_at - delay < last.at
    /\ last.at < chat_settings[chat_id].next_poke_at

\* C11 (as stated): a chat that became active after its poke was scheduled
\* is not among the chats the scheduler fetches as due for a poke
C11_Original ==
    [][(sched.pc = "sleep" /\ sched'.pc = "cycle") =>
          \A c \in sched'.due : ~ActiveAfterScheduling(c)]_vars

(***************************************************************************)
(* SpecImages: the daily counter of image generations on its own.  The     *)
(* counter is incremented up to MaxImages times a day while the clock goes *)
(* through three calendar days.  hist.n counts the increments made on the  *)
(* present day and hist.r keeps what the last of them returned.            *)
(***************************************************************************)
MaxImages == 12

ImageInstants == {0, MinutesPerDay - 1, MinutesPerDay, 2 * MinutesPerDay}

\* await db.increment_image_gen_count(): RETURNING count
ImageIncrement ==
    /\ hist.n < MaxImages
    /\ \E log \in {increment_image_gen_count(image_gen_log, now)} :
          /\ image_gen_log' = log
          /\ hist' = [hist EXCEPT !.n = @ + 1, !.r = log[CURRENT_DATE(now)]]
    /\ UNCHANGED <<now, chat_settings, users, chat_members, user_ignore, process, last, sched,
                   tasks>>

TickImages ==
    /\ \E t \in ImageInstants :
          /\ t > now
          /\ now' = t
          /\ hist' = IF CURRENT_DATE(t) = CURRENT_DATE(now) THEN hist
                     ELSE [hist EXCEPT !.n = 0, !.r = 0]
    /\ UNCHANGED <<chat_settings, users, chat_members, user_ignore, process, image_gen_log, last,
                   sched, tasks>>

NextImages ==
    \/ ImageIncrement
    \/ TickImages

SpecImages == InitEmpty /\ [][NextImages]_vars

\* C12: on one calendar date image_gen_allowed() is true after fewer than 10
\* increments and false after 10 or more; the date has a row exactly when an
\* increment was made on it, the row holds the number of increments, and the
\* last increment returned that number (1 for the one that created the
\* row); a date without increments, as after the change of date, is allowed
C12_DailyCounter ==
    /\ image_gen_allowed(image_gen_log, now) <=> hist.n < IMAGE_GEN_DAILY_LIMIT
    /\ CURRENT_DATE(now) \in DOMAIN image_gen_log <=> hist.n > 0
    /\ get_image_gen_count_today(image_gen_log, now) = hist.n
    /\ hist.r = hist.n

\* the day before ended at the limit and was refused; on the new date ten
\* increments have been made again and the eleventh check says no
C12_Witness ==
    /\ CURRENT_DATE(now) = 1
    /\ 0 \in DOMAIN image_gen_log
    /\ image_gen_log[0] = IMAGE_GEN_DAILY_LIMIT
    /\ hist.n = IMAGE_GEN_DAILY_LIMIT
    /\ ~image_gen_allowed(image_gen_log, now)

(***************************************************************************)
(* SpecPhotoRace: photo handlers of edit requests run as concurrent tasks, *)
(* in one chat or in two, and yield at their awaits: one step up to the    *)
(* limit check, one for the check, one from the image service's answer to  *)
(* the end.  hist.r counts the images the service produced on the date;    *)
(* last keeps the answer given to the request that ended last.             *)
(***************************************************************************)
MaxPhotoRequests == 11

PhotoIdle == [pc |-> "idle", msg |-> NoMsg]

EditRequests ==
    {Msg("photo", GroupChat, Anna, T_plain, "none", TRUE),
     Msg("photo", OtherGroup, Boris, T_plain, "none", TRUE)}

InitPhotoRace ==
    /\ now = 0
    /\ chat_settings = Empty
    /\ users = Empty
    /\ chat_members = {}
    /\ user_ignore = Empty
    /\ image_gen_log = Empty
    /\ last = InitLast
    /\ hist = InitHist
    /\ sched = InitSched
    /\ tasks = [i \in TaskIds |-> PhotoIdle]
    /\ process = Running

\* on_photo up to the download: the sender, the chat and its activity stored
PhotoStart(i, m) ==
    /\ tasks[i].pc = "idle"
    /\ hist.n < MaxPhotoRequests
    /\ FromAUser(m) /\ _is_direct_mention(m)
    /\ _is_image_edit_request(m.text, Env(TRUE, <<>>, TRUE, TRUE, FALSE))
    /\ users' = upsert_user(users, m.user, m.username)
    /\ chat_members' = add_chat_member(chat_members, m.chat_id, m.user)
    /\ chat_settings' =
          touch_last_activity(_ensure_chat(chat_settings, m.chat_id, now), m.chat_id, now)
    /\ tasks' = [tasks EXCEPT ![i] = [pc |-> "check", msg |-> m]]
    /\ hist' = [hist EXCEPT !.n = @ + 1]
    /\ UNCHANGED <<now, user_ignore, process, image_gen_log, last, sched>>

\* what the request that ended last was answered with, and the count of the
\* date that the step found
PhotoOutcome(m, what) ==
    [last EXCEPT !.handler = "on_photo", !.msg = m, !.at = now,
                 !.out = [NoOut EXCEPT !.replies = <<what>>],
                 !.images_before = get_image_gen_count_today(image_gen_log, now)]

\* if not await db.image_gen_allowed(): the refusal and return
PhotoCheck(i) ==
    /\ tasks[i].pc = "check"
    /\ IF image_gen_allowed(image_gen_log, now)
       THEN /\ tasks' = [tasks EXCEPT ![i] = [@ EXCEPT !.pc = "generate"]]
            /\ UNCHANGED last
       ELSE /\ tasks' = [tasks EXCEPT ![i] = PhotoIdle]
            /\ last' = PhotoOutcome(tasks[i].msg, "limit")
    /\ UNCHANGED <<now, chat_settings, users, chat_members, user_ignore, process, image_gen_log,
                   hist, sched>>

\* mutant: the attempt is counted, whether there is an image or not
Mutant_PhotoGenerated_counts_attempts(i, image_ok) ==
    /\ tasks[i].pc = "generate"
    /\ image_gen_log' = increment_image_gen_count(image_gen_log, now)
    /\ hist' = IF image_ok THEN [hist EXCEPT !.r = @ + 1] ELSE hist
    /\ last' = PhotoOutcome(tasks[i].msg, IF image_ok THEN "image" ELSE "image_failed")
    /\ chat_settings' = reset_message_count(chat_settings, tasks[i].msg.chat_id)
    /\ tasks' = [tasks EXCEPT ![i] = PhotoIdle]
    /\ UNCHANGED <<now, users, chat_members, user_ignore, process, sched>>

\* image_url = await _generate_image(...), the increment and the photo when
\* there is an image, the apology when there is none, and
\* reset_message_count for the mention
PhotoGenerated(i, image_ok) ==
    /\ tasks[i].pc = "generate"
    /\ IF image_ok
       THEN /\ image_gen_log' = increment_image_gen_count(image_gen_log, now)
            /\ hist' = [hist EXCEPT !.r = @ + 1]
       ELSE UNCHANGED <<image_gen_log, hist>>
    /\ last' = PhotoOutcome(tasks[i].msg, IF image_ok THEN "image" ELSE "image_failed")
    /\ chat_settings' = reset_message_count(chat_settings, tasks[i].msg.chat_id)
    /\ tasks' = [tasks EXCEPT ![i] = PhotoIdle]
    /\ UNCHANGED <<now, users, chat_members, user_ignore, process, sched>>

NextPhotoRace ==
    \/ \E i \in TaskIds, m \in EditRequests : PhotoStart(i, m)
    \/ \E i \in TaskIds : PhotoCheck(i)
    \/ \E i \in TaskIds, image_ok \in BOOLEAN : PhotoGenerated(i, image_ok)

SpecPhotoRace == InitPhotoRace /\ [][NextPhotoRace]_vars

\* C13 (as stated): whatever the interleaving of the photo handlers, neither
\* the images generated on one date nor the stored count of a date exceed
\* the daily limit
C13_Original ==
    /\ hist.r <= IMAGE_GEN_DAILY_LIMIT
    /\ \A date \in DOMAIN image_gen_log : image_gen_log[date] <= IMAGE_GEN_DAILY_LIMIT

(***************************************************************************)
(* SpecCounter: increment_and_get called by concurrent tasks on two chats. *)
(* A call is two statements on its connection, _ensure_chat and the        *)
(* UPDATE ... RETURNING; a task keeps the count the UPDATE returned.  When *)
(* no call is in flight a new round of calls begins: hist.r holds, per     *)
(* chat, the message_count the round started from.                         *)
(***************************************************************************)
MaxCalls == 6

CallerIds == {1, 2, 3}

CallerIdle == [pc |-> "idle", chat_id |-> 0, count |-> 0]

InitCounter ==
    /\ now = 0
    /\ chat_settings = Empty
    /\ users = Empty
    /\ chat_members = {}
    /\ user_ignore = Empty
    /\ image_gen_log = Empty
    /\ last = InitLast
    /\ hist = [InitHist EXCEPT !.r = Empty]
    /\ sched = InitSched
    /\ tasks = [i \in CallerIds |-> CallerIdle]
    /\ process = Running

\* await _ensure_chat(chat_id, conn)
CounterEnsure(i, chat_id) ==
    /\ tasks[i].pc = "idle"
    /\ hist.n < MaxCalls
    /\ chat_settings' = _ensure_chat(chat_settings, chat_id, now)
    /\ tasks' = [tasks EXCEPT ![i] = [pc |-> "update", chat_id |-> chat_id, count |-> 0]]
    /\ hist' = [hist EXCEPT !.n = @ + 1]
    /\ UNCHANGED <<now, users, chat_members, user_ignore, process, image_gen_log, last, sched>>

\* row = await conn.fetchrow(UPDATE ... RETURNING message_count, ...)
CounterUpdate(i) ==
    /\ tasks[i].pc = "update"
    /\ \E cs \in {increment_and_get(chat_settings, tasks[i].chat_id, now)} :
          /\ chat_settings' = cs
          /\ tasks' = [tasks EXCEPT ![i].pc = "done",
                                    ![i].count = cs[tasks[i].chat_id].message_count]
    /\ UNCHANGED <<now, users, chat_members, user_ignore, process, image_gen_log, last, hist,
                   sched>>

\* every call has returned; the next calls start from the counts reached
CounterRound ==
    /\ \A i \in CallerIds : tasks[i].pc # "update"
    /\ \E i \in CallerIds : tasks[i].pc = "done"
    /\ tasks' = [i \in CallerIds |-> CallerIdle]
    /\ hist' = [hist EXCEPT !.r = [c \in DOMAIN chat_settings |->
                                       chat_settings[c].message_count]]
    /\ UNCHANGED <<now, chat_settings, users, chat_members, user_ignore, process, image_gen_log,
                   last, sched>>

NextCounter ==
    \/ \E i \in CallerIds, chat_id \in {GroupChat, OtherGroup} : CounterEnsure(i, chat_id)
    \/ \E i \in CallerIds : CounterUpdate(i)
    \/ CounterRound

SpecCounter == InitCounter /\ [][NextCounter]_vars

\* the message_count of the chat when the round of calls began
OldCount(chat_id) == IF chat_id \in DOMAIN hist.r THEN hist.r[chat_id] ELSE 0

\* the calls of the round on the chat that have returned
Returned(chat_id) ==
    {i \in CallerIds : tasks[i].pc = "done" /\ tasks[i].chat_id = chat_id}

\* C14: among concurrent calls of increment_and_get on one chat no update is
\* lost: the counts returned so far are pairwise distinct, they are exactly
\* old+1 .. old+n for the n calls that have returned, and the stored
\* message_count is old+n
C14_Linearizable ==
    \A c \in {GroupChat, OtherGroup} :
       /\ \A i, j \in Returned(c) : i # j => tasks[i].count # tasks[j].count
       /\ {tasks[i].count : i \in Returned(c)} =
             (OldCount(c) + 1) .. (OldCount(c) + Cardinality(Returned(c)))
       /\ c \in DOMAIN chat_settings =>
             chat_settings[c].message_count = OldCount(c) + Cardinality(Returned(c))

\* three calls of one round on one chat, started from a count above 0, have
\* all returned
C14_Witness ==
    /\ OldCount(GroupChat) > 0
    /\ Returned(GroupChat) = CallerIds

\* the group chats that the step takes off the list of the cycle without a
\* poke: their rows are as they were
DroppedFromCycle ==
    {c \in sched.due \ sched'.due : c < 0 /\ chat_settings'[c] = chat_settings[c]}

\* C15 (as stated): an error in a poll cycle costs the poke of the one chat
\* it occurred for; every other due group chat of the cycle is still poked
\* and rescheduled
C15_Original ==
    [][(sched.pc = "cycle" /\ sched'.pc = "cycle") =>
          Cardinality(DroppedFromCycle) <= 1]_vars

\* C16 (as stated, the part that the task is never over): no failure in the
\* start-up pass or in a poll cycle ends the scheduler task
C16_Original == sched.pc # "dead"

(***************************************************************************)
(* SpecSenders: the four message handlers, one message after another, in   *)
(* one group chat and in private chats, with messages of a user and        *)
(* messages that carry the bot's own account as sender; the user may ask   *)
(* to be left alone for two days, and the clock passes that time.          *)
(***************************************************************************)
MaxSenderMessages == 4

SenderInstants == {0, 1, 2 * MinutesPerDay}

SenderMessages ==
    {Msg("text", GroupChat, u, x, "none", a) :
        u \in {Anna, Sheldon}, x \in {T_plain, T_ignore_2}, a \in BOOLEAN}
    \cup {Msg("text", u, u, T_plain, "none", FALSE) : u \in {Anna, Sheldon}}
    \cup {Msg("photo", GroupChat, u, T_plain, "none", a) :
             u \in {Anna, Sheldon}, a \in BOOLEAN}
    \cup {Msg("voice", GroupChat, u, <<>>, "bot", FALSE) : u \in {Anna, Sheldon}}

\* the completion service answers, a caption is no edit request, a voice
\* message is transcribed
SenderEnv == Env(TRUE, T_plain, FALSE, FALSE, FALSE)

\* the handler that the filters of the dispatcher select for the message
handler_for(m) ==
    CASE m.kind = "photo" -> "on_photo"
      [] m.kind = "voice" -> "on_voice"
      [] m.kind = "text" /\ ChatType(m.chat_id) = "group" -> "on_group_message"
      [] OTHER -> "on_private_message"

handler_run(s, m, env, t) ==
    CASE handler_for(m) = "on_photo" -> on_photo_run(s, m, env, t)
      [] handler_for(m) = "on_voice" -> on_voice_run(s, m, env, t)
      [] handler_for(m) = "on_group_message" -> on_group_message_run(s, m, env, t)
      [] OTHER -> on_private_message_run(s, m, env, t)

SenderMessage ==
    /\ hist.n < MaxSenderMessages
    /\ \E m \in SenderMessages :
          Handle(handler_for(m), handler_run(Store, m, SenderEnv, now), m, SenderEnv)
    /\ hist' = [hist EXCEPT !.n = @ + 1]
    /\ UNCHANGED <<now, sched, tasks>>

TickSenders ==
    /\ \E t \in SenderInstants : t > now /\ now' = t
    /\ UNCHANGED <<chat_settings, users, chat_members, user_ignore, process, image_gen_log, last,
                   hist, sched, tasks>>

NextSenders ==
    \/ SenderMessage
    \/ TickSenders

SpecSenders == InitEmpty /\ [][NextSenders]_vars

\* C17 (as stated): a message whose sender is the bot's own account gets no
\* reply from any handler and leaves the chat's messageCount as it was
C17_Original ==
    last.msg.user = Sheldon =>
       /\ last.out.replies = <<>>
       /\ last.out.incrs = 0 /\ last.out.resets = 0

\* the store with the ignore entry of (chat_id, user_id) taken out
without_ignore(s, chat_id, user_id) ==
    [s EXCEPT !.ui = [k \in DOMAIN s.ui \ {<<chat_id, user_id>>} |-> s.ui[k]]]

\* the store with an ignore entry of (chat_id, user_id) that lasts beyond t
with_ignore(s, chat_id, user_id, t) ==
    [s EXCEPT !.ui = set_user_ignore(@, chat_id, user_id, t + MinutesPerDay)]

\* C18: in every state of the store, a message is handled the same way
\* whether its sender has an active ignore entry in the chat or none: the
\* same replies, and the same rows of chat_settings, messageCount included
C18_IgnoreDoesNotChangeHandling ==
    \A m \in SenderMessages :
       \E a \in {handler_run(with_ignore(Store, m.chat_id, m.user, now), m, SenderEnv, now)},
          b \in {handler_run(without_ignore(Store, m.chat_id, m.user), m, SenderEnv, now)} :
          /\ is_user_ignored(with_ignore(Store, m.chat_id, m.user, now).ui,
                             m.chat_id, m.user, now)
          /\ ~is_user_ignored(without_ignore(Store, m.chat_id, m.user).ui,
                              m.chat_id, m.user, now)
          /\ a.out.replies = b.out.replies
          /\ a.cs = b.cs

\* the user asked to be left alone, the entry is active, and the user's next
\* message, a mention, got its reply
C18_Witness ==
    /\ is_user_ignored(user_ignore, GroupChat, Anna, now)
    /\ last.handler = "on_group_message"
    /\ last.msg.user = Anna
    /\ last.msg.text = T_plain
    /\ last.msg.mention
    /\ last.out.replies # <<>>

(***************************************************************************)
(* SpecPokeIgnore: the scheduler and one group chat whose members, two     *)
(* with a handle and one without, write, ask to be left alone for two      *)
(* days, or answer a dossier request.  The clock passes the first poke     *)
(* time and the end of an ignore entry made at 0.                          *)
(***************************************************************************)
MaxPokeIgnoreMessages == 3

PokeIgnoreInstants == {0, POKE_MIN_MINUTES, 2 * MinutesPerDay}

PokeIgnoreMessages ==
    {Msg("text", GroupChat, Anna, x, "none", TRUE) : x \in {T_plain, T_ignore_2}}
    \cup {Msg("text", GroupChat, Clara, T_plain, r, TRUE) : r \in {"none", "bot_dossier"}}
    \cup {Msg("text", GroupChat, Boris, T_plain, "none", TRUE)}

PokeIgnoreMessage ==
    /\ hist.n < MaxPokeIgnoreMessages
    /\ \E m \in PokeIgnoreMessages :
          on_group_message(m, Env(TRUE, <<>>, FALSE, FALSE, FALSE))
    /\ hist' = [hist EXCEPT !.n = @ + 1]
    /\ UNCHANGED <<now, sched, tasks>>

TickPokeIgnore ==
    /\ \E t \in PokeIgnoreInstants : t > now /\ now' = t
    /\ UNCHANGED <<chat_settings, users, chat_members, user_ignore, process, image_gen_log, last,
                   hist, sched, tasks>>

NextPokeIgnore ==
    \/ PokeIgnoreMessage
    \/ TickPokeIgnore
    \/ Restart
    \/ SchedBoot
    \/ \E c \in sched.due : SchedAnnounce(c)
    \/ SchedSleep
    \/ SchedPoll
    \/ \E c \in sched.due : SchedPoke(c)
    \/ SchedError
    \/ SchedCrash

SpecPokeIgnore == InitPoke /\ [][NextPokeIgnore]_vars

\* the step is a poke: a chat of the cycle is taken off the list and written
PokeStep ==
    /\ sched.pc = "cycle" /\ sched'.pc = "cycle"
    /\ sched'.due # sched.due
    /\ chat_settings' # chat_settings

\* C19: whoever a poke addresses by name (bio question or general question)
\* is a member of the chat with a handle who is not ignored in that chat at
\* the time of the poke
C19_TargetNotIgnored ==
    [][(PokeStep /\ sched'.poke.target # NoUser) =>
          /\ sched'.poke.kind \in {"bio_question", "question"}
          /\ sched'.poke.target \in get_chat_members(chat_members, users, sched'.poke.chat)
          /\ users[sched'.poke.target].username # ""
          /\ ~is_user_ignored(user_ignore, sched'.poke.chat, sched'.poke.target, now)]_vars

\* a cycle has just addressed Clara while Anna, a member with a handle and
\* without a bio, had an ignore entry made before the cycle and still active
C19_Witness ==
    /\ sched.pc = "cycle"
    /\ sched.poke.chat = GroupChat
    /\ sched.poke.target = Clara
    /\ Anna \in get_members_without_bio(chat_members, users, GroupChat)
    /\ is_user_ignored(user_ignore, GroupChat, Anna, now)
    /\ user_ignore[<<GroupChat, Anna>>] - 2 * MinutesPerDay < sched.at

(***************************************************************************)
(* SpecPrivate: the scheduler on a database that is empty or comes from a  *)
(* deployment older than the poke columns.  init_db adds last_activity and *)
(* next_poke_at to the rows of such a database with two ALTER statements,  *)
(* each with its own NOW(): every old row, the row of a private chat       *)
(* included, starts with last_activity before next_poke_at.  One user      *)
(* writes and sends photos in a private chat and writes in a group.        *)
(***************************************************************************)
MaxPrivateMessages == 2

PrivateInstants == {1, 2, POKE_MIN_MINUTES + 1}

\* a row that was there before the two columns were added at minutes 0, 1
MigratedRow == [DefaultRow(0) EXCEPT !.next_poke_at = 1]

PrivateMessages ==
    {Msg("text", Anna, Anna, T_plain, "none", FALSE),
     Msg("photo", Anna, Anna, <<>>, "none", FALSE),
     Msg("text", GroupChat, Anna, T_plain, "none", TRUE)}

InitPrivate ==
    /\ now = 1
    /\ chat_settings \in {Empty, [c \in {Anna, GroupChat} |-> MigratedRow]}
    /\ users = Empty
    /\ chat_members = {}
    /\ user_ignore = Empty
    /\ image_gen_log = Empty
    /\ last = InitLast
    /\ hist = InitHist
    /\ sched = [InitSched EXCEPT !.pc = "boot"]
    /\ tasks = InitTasks
    /\ process = Running

PrivateMessage ==
    /\ hist.n < MaxPrivateMessages
    /\ \E m \in PrivateMessages :
          Handle(handler_for(m),
                 handler_run(Store, m, Env(TRUE, <<>>, FALSE, FALSE, FALSE), now),
                 m, Env(TRUE, <<>>, FALSE, FALSE, FALSE))
    /\ hist' = [hist EXCEPT !.n = @ + 1]
    /\ UNCHANGED <<now, sched, tasks>>

TickPrivate ==
    /\ \E t \in PrivateInstants : t > now /\ now' = t
    /\ UNCHANGED <<chat_settings, users, chat_members, user_ignore, process, image_gen_log, last,
                   hist, sched, tasks>>

NextPrivate ==
    \/ PrivateMessage
    \/ TickPrivate
    \/ Restart
    \/ SchedBoot
    \/ \E c \in sched.due : SchedAnnounce(c)
    \/ SchedSleep
    \/ SchedPoll
    \/ \E c \in sched.due : SchedPoke(c)
    \/ SchedError
    \/ SchedCrash

SpecPrivate == InitPrivate /\ [][NextPrivate]_vars

\* C20: no step of the scheduler sends an announcement or a poke to a
\* private chat, creates the row of a private chat or changes one (its
\* nextPokeAt and lastActivityAt with it), whether or not the chat is among
\* those fetched as due
C20_PrivateChatsLeftAlone ==
    [][sched' # sched =>
          /\ \A c \in DOMAIN chat_settings' :
                c >= 0 => c \in DOMAIN chat_settings /\ chat_settings'[c] = chat_settings[c]
          /\ sched'.poke # sched.poke /\ sched'.poke # NoPoke => sched'.poke.chat < 0]_vars

\* a poll fetched the private chat and a group as due; the private chat has
\* been passed over, still satisfies the predicate, and the cycle goes on
C20_Witness ==
    /\ sched.pc = "cycle"
    /\ Anna \in DOMAIN chat_settings
    /\ chat_settings[Anna].next_poke_at <= sched.at
    /\ PokeTimePassedInSilence(Anna)
    /\ Anna \notin sched.due
    /\ GroupChat \in sched.due

\* the step is a poke of the group chat_id: the cycle takes it off its list
\* and writes its row
PokeOf(chat_id) ==
    /\ sched.pc = "cycle" /\ sched'.pc = "cycle"
    /\ chat_id \in sched.due \ sched'.due
    /\ chat_settings'[chat_id] # chat_settings[chat_id]

\* C21: a poke leaves the chat with nextPokeAt = now + d, d in [90, 2880]
\* minutes, and lastActivityAt = now, so the chat is not among the due chats
\* of a poll one interval later; and a poke comes at least 90 minutes after
\* the previous poke of the same chat
C21_PokeReschedules ==
    [][\A c \in DOMAIN chat_settings :
          PokeOf(c) =>
             /\ chat_settings'[c].next_poke_at - now
                   \in POKE_MIN_MINUTES .. POKE_MAX_MINUTES
             /\ chat_settings'[c].last_activity = now
             /\ chat_settings'[c].last_activity < chat_settings'[c].next_poke_at
             /\ c \notin get_chats_due_for_poke(chat_settings', now + CHECK_INTERVAL)
             /\ \E p \in {hist'.poked[c]} :
                   /\ p[Len(p)] = now
                   /\ Len(p) > 1 => p[Len(p)] - p[Len(p) - 1] >= POKE_MIN_MINUTES]_vars

\* a chat has just been poked for the second time
C21_Witness ==
    /\ sched.pc = "cycle"
    /\ GroupChat \in DOMAIN hist.poked
    /\ Len(hist.poked[GroupChat]) = 2
    /\ hist.poked[GroupChat][2] = now
    /\ chat_settings[GroupChat].last_activity = now
    /\ chat_settings[GroupChat].next_poke_at > now

\* C22 (as stated): when a poll cycle ends, no group chat is left with a
\* nextPokeAt that had already passed when the cycle fetched the due chats
C22_Original ==
    [][(sched.pc = "cycle" /\ sched'.pc = "sleep") =>
          \A c \in DOMAIN chat_settings :
             c < 0 => ~(chat_settings[c].next_poke_at < sched.at)]_vars

(***************************************************************************)
(* SpecShutdown: the scheduler, the clock, mentions in a group chat, and   *)
(* the end of the process: the dispatcher stops polling and runs           *)
(* on_shutdown, then main returns and asyncio.run cancels the tasks that   *)
(* are left.  _scheduler_loop tests nothing before a step, so its steps    *)
(* stay enabled until that cancellation.                                   *)
(***************************************************************************)
MaxShutdownMessages == 2

ShutdownInstants == {0, CHECK_INTERVAL, POKE_MIN_MINUTES, POKE_MIN_MINUTES + CHECK_INTERVAL}

\* database.close_pool: the pool is closed and _pool is None again
close_pool(p) == [p EXCEPT !.pool = "none"]

ShutdownMessage ==
    /\ process.phase = "polling"
    /\ hist.n < MaxShutdownMessages
    /\ on_group_message(Msg("text", GroupChat, Anna, T_plain, "none", TRUE),
                        Env(TRUE, <<>>, FALSE, FALSE, FALSE))
    /\ hist' = [hist EXCEPT !.n = @ + 1]
    /\ UNCHANGED <<now, sched, tasks>>

\* the end of the process takes far less than a minute
TickShutdown ==
    /\ process.phase # "shutdown"
    /\ \E t \in ShutdownInstants : t > now /\ now' = t
    /\ UNCHANGED <<chat_settings, users, chat_members, user_ignore, process, image_gen_log, last,
                   hist, sched, tasks>>

\* the dispatcher has stopped polling: await db.close_pool(), and nothing
\* else (the task of on_startup is not cancelled)
on_shutdown ==
    /\ process.phase = "polling"
    /\ process' = [close_pool(process) EXCEPT !.phase = "shutdown"]
    /\ UNCHANGED <<now, chat_settings, users, chat_members, user_ignore, image_gen_log, last,
                   hist, sched, tasks>>

\* main has returned: asyncio.run cancels the scheduler's task at the await
\* it is suspended in
Teardown ==
    /\ process.phase = "shutdown"
    /\ process' = [process EXCEPT !.phase = "stopped"]
    /\ sched' = InitSched
    /\ UNCHANGED <<now, chat_settings, users, chat_members, user_ignore, image_gen_log, last,
                   hist, tasks>>

\* the process is started again: on_startup
Startup ==
    /\ process.phase = "stopped"
    /\ process' = Running
    /\ sched' = [InitSched EXCEPT !.pc = "boot"]
    /\ UNCHANGED <<now, chat_settings, users, chat_members, user_ignore, image_gen_log, last,
                   hist, tasks>>

NextShutdown ==
    \/ ShutdownMessage
    \/ TickShutdown
    \/ on_shutdown
    \/ Teardown
    \/ Startup
    \/ SchedBoot
    \/ \E c \in sched.due : SchedAnnounce(c)
    \/ SchedSleep
    \/ SchedPoll
    \/ \E c \in sched.due : SchedPoke(c)
    \/ SchedError
    \/ SchedCrash

SpecShutdown == InitPoke /\ [][NextShutdown]_vars

\* C23 (as stated): once on_shutdown has closed the pool, a scheduler that
\* is at its wake point starts no poll cycle and does not create the pool
\* again
C23_Original ==
    [][(process.phase = "shutdown" /\ sched.pc = "sleep") =>
          /\ sched'.pc # "cycle"
          /\ process.pool = "none" => process'.pool = "none"]_vars

\* the value an adjustment computes (new_val) from the settings it is given
adjusted_value(entry, settings) ==
    CASE entry.action = "humor_up" -> humor_up_value(settings, GroupChat, entry.delta)
      [] entry.action = "humor_down" -> humor_down_value(settings, GroupChat, entry.delta)
      [] entry.action = "freq_up" -> freq_up_value(settings, GroupChat, entry.delta)
      [] entry.action = "length_down" -> length_down_value(settings, GroupChat, entry.delta)
      [] entry.action = "length_up" -> length_up_value(settings, GroupChat, entry.delta)

\* the field an adjustment writes
adjusted_field(entry, settings) ==
    CASE entry.action \in {"humor_up", "humor_down"} -> settings[GroupChat].humor_level
      [] entry.action = "freq_up" -> settings[GroupChat].reply_frequency
      [] entry.action \in {"length_down", "length_up"} -> settings[GroupChat].max_response_lines

\* C24 (as stated): an adjustment is one read-modify-write: the value its
\* write leaves in the field is the adjustment of the value the field had
\* just before the write, so no adjustment that ran in between is lost
\* (as long as adjustments are all that has run: no /frequency so far)
C24_Original ==
    [][\A i \in TaskIds :
          (last.handler = "none" /\ tasks[i].pc = "write" /\ tasks'[i] # tasks[i]) =>
             adjusted_field(SETTINGS_PATTERNS[tasks[i].k], chat_settings')
                = adjusted_value(SETTINGS_PATTERNS[tasks[i].k], chat_settings)]_vars

(***************************************************************************)
(* SpecStore: the operations of database.py on chat_settings, called one   *)
(* after another on a group chat and a private chat, at two instants.      *)
(* last holds the call: the operation, the chat and the row before it.     *)
(***************************************************************************)
MaxStoreCalls == 4

StoreChats == {GroupChat, Anna}

\* the operations that begin with _ensure_chat, each with the column it writes
EnsuringCalls ==
    [ensure_chat_exists |-> "none", get_chat_settings |-> "none",
     get_full_chat_settings |-> "none", increment_and_get |-> "message_count",
     increase_reply_frequency |-> "reply_frequency", touch_last_activity |-> "last_activity",
     set_humor_level |-> "humor_level", set_max_response_lines |-> "max_response_lines",
     set_next_poke_at |-> "next_poke_at"]

\* one call of an operation; the values are the ones the handlers pass
store_call(cs, op, chat_id, t) ==
    CASE op \in {"ensure_chat_exists", "get_chat_settings", "get_full_chat_settings"} ->
           {_ensure_chat(cs, chat_id, t)}
      [] op = "increment_and_get" -> {increment_and_get(cs, chat_id, t)}
      [] op = "increase_reply_frequency" -> {increase_reply_frequency(cs, chat_id, 5, t)}
      [] op = "touch_last_activity" -> {touch_last_activity(cs, chat_id, t)}
      [] op = "set_humor_level" -> {set_humor_level(cs, chat_id, v, t) : v \in {3, 7}}
      [] op = "set_max_response_lines" ->
           {set_max_response_lines(cs, chat_id, v, t) : v \in {2, 4}}
      [] op = "set_next_poke_at" ->
           {set_next_poke_at(cs, chat_id, delay, t) : delay \in _random_poke_delay}

StoreCall ==
    /\ hist.n < MaxStoreCalls
    /\ \E op \in DOMAIN EnsuringCalls, chat_id \in StoreChats :
          /\ op = "increase_reply_frequency" => ReplyFrequency(chat_id) <= MaxReplyFrequency
          /\ chat_settings' \in store_call(chat_settings, op, chat_id, now)
          /\ last' = [InitLast EXCEPT !.handler = op, !.msg.chat_id = chat_id, !.at = now,
                         !.existed = chat_id \in DOMAIN chat_settings,
                         !.before = _ensure_chat(chat_settings, chat_id, now)[chat_id]]
    /\ process' = get_pool(process)
    /\ hist' = [hist EXCEPT !.n = @ + 1]
    /\ UNCHANGED <<now, users, chat_members, user_ignore, image_gen_log, sched, tasks>>

TickStore ==
    /\ now = 0
    /\ now' = 1
    /\ UNCHANGED <<chat_settings, users, chat_members, user_ignore, process, image_gen_log, last,
                   hist, sched, tasks>>

NextStore == StoreCall \/ TickStore

SpecStore == InitEmpty /\ [][NextStore]_vars

\* C25: a call of an operation that ensures the chat leaves every other row
\* as it is; a row it creates has the values 0, 5, 5, 3 and both times now,
\* a row that was there keeps its values, but for the one column the
\* operation writes (none for ensure itself); and ensuring again changes
\* nothing
C25_EnsureIdempotent ==
    [][\A op \in DOMAIN EnsuringCalls :
          last'.handler = op /\ hist'.n # hist.n =>
             LET chat_id == last'.msg.chat_id
                 created == [message_count |-> 0, reply_frequency |-> 5, humor_level |-> 5,
                             max_response_lines |-> 3, last_activity |-> now,
                             next_poke_at |-> now]
                 base == IF chat_id \in DOMAIN chat_settings THEN chat_settings[chat_id]
                         ELSE created
             IN /\ DOMAIN chat_settings' = DOMAIN chat_settings \cup {chat_id}
                /\ \A c \in DOMAIN chat_settings :
                      c # chat_id => chat_settings'[c] = chat_settings[c]
                /\ \A f \in DOMAIN base :
                      f # EnsuringCalls[op] => chat_settings'[chat_id][f] = base[f]
                /\ _ensure_chat(chat_settings', chat_id, now + 1) = chat_settings']_vars

\* ensure is called, a minute after the row was made, on a chat whose count,
\* humour and length are no longer the defaults, and the row is what it was
C25_Witness ==
    /\ last.handler = "ensure_chat_exists"
    /\ last.existed
    /\ last.before.message_count > 0
    /\ last.before.humor_level # 5
    /\ last.before.max_response_lines # 3
    /\ last.at > last.before.last_activity
    /\ chat_settings[last.msg.chat_id] = last.before

(***************************************************************************)
(* SpecUsers: upsert_user and set_user_bio called one after another for    *)
(* two users whose handle changes.  hist.bios holds, for each user, the  *)
(* bio last given to set_user_bio while the user had a row.                *)
(***************************************************************************)
MaxUserCalls == 5

ChangingUsers == {Anna, Boris}

\* user.username of an update: a handle, another one, or none
Handles == {"anna", "anna_k", ""}

B_physicist == <<"f", "i", "z", "i", "k">>
B_engineer == <<"i", "n", "zh", "e", "n", "e", "r">>

\* /setbio with a text, or the bio collected from a reply; the empty text
\* is what the collection flow may come up with
Bios == {B_physicist, B_engineer, <<>>}

UpsertUser ==
    /\ hist.n < MaxUserCalls
    /\ \E user_id \in ChangingUsers, username \in Handles :
          /\ users' = upsert_user(users, user_id, username)
          /\ hist' = [hist EXCEPT !.n = @ + 1,
                         !.bios = IF user_id \in DOMAIN users THEN @
                                    ELSE @ @@ (user_id :> <<>>)]
    /\ process' = get_pool(process)
    /\ UNCHANGED <<now, chat_settings, chat_members, user_ignore, image_gen_log, last, sched,
                   tasks>>

SetUserBio ==
    /\ hist.n < MaxUserCalls
    /\ \E user_id \in ChangingUsers, bio \in Bios :
          /\ users' = set_user_bio(users, user_id, bio)
          /\ hist' = [hist EXCEPT !.n = @ + 1,
                         !.bios = IF user_id \in DOMAIN users
                                    THEN [@ EXCEPT ![user_id] = bio] ELSE @]
    /\ process' = get_pool(process)
    /\ UNCHANGED <<now, chat_settings, chat_members, user_ignore, image_gen_log, last, sched,
                   tasks>>

NextUsers == UpsertUser \/ SetUserBio

SpecUsers == InitEmpty /\ [][NextUsers]_vars

\* C26: the stored bio of a user is the one last set with set_user_bio,
\* whatever upsert_user calls came after it, and empty if none was set
\* since upsert_user created the user
C26_UpsertKeepsBio ==
    /\ DOMAIN users = DOMAIN hist.bios
    /\ \A u \in DOMAIN users : users[u].bio = hist.bios[u]

\* a user with a bio whose handle is not the one it was created with
C26_Witness ==
    /\ Anna \in DOMAIN users
    /\ users[Anna].bio = B_physicist
    /\ users[Anna].username = "anna_k"
    /\ Boris \in DOMAIN users
    /\ users[Boris].bio = <<>>

\* pool (a) and pool (b) of the chat a poke went to, at the time of the poke
PoolA == members_no_bio(Store, sched'.poke.chat, now)
PoolB == with_username(Store, sched'.poke.chat, now)

\* C27 (as stated): a poke is a bio question to a member of pool (a) when
\* pool (a) is not empty and the first draw is below 0.6; otherwise a
\* question to a member of pool (b) when pool (b) is not empty and the
\* second draw is below 0.55; otherwise the silence breaker
C27_Original ==
    [][PokeStep =>
          LET p == sched'.poke
              bio == PoolA # {} /\ p.first = "below"
              question == ~bio /\ PoolB # {} /\ p.second = "below"
          IN /\ bio => p.kind = "bio_question" /\ p.target \in PoolA
             /\ question => p.kind = "question" /\ p.target \in PoolB
             /\ ~bio /\ ~question => p.kind = "silence_breaker" /\ p.target = NoUser]_vars

\* C27 (amended): a poke is exactly one message: a bio question to the
\* member picked from pool (a) when pool (a) is not empty, the first draw is
\* below 0.6 and the picked member has a handle; otherwise a question to a
\* member of pool (b) when pool (b) is not empty and the second draw is
\* below 0.55; otherwise the silence breaker, addressed to no one.  The
\* first draw is made only when pool (a) is not empty, the second only when
\* no bio question was sent and pool (b) is not empty
C27_PokePriority ==
    [][PokeStep =>
          LET p == sched'.poke
              bio == /\ PoolA # {} /\ p.first = "below"
                     /\ p.pick \in PoolA /\ users[p.pick].username # ""
              question == ~bio /\ PoolB # {} /\ p.second = "below"
          IN /\ p.kind \in {"bio_question", "question", "silence_breaker"}
             /\ bio => p.kind = "bio_question" /\ p.target = p.pick
             /\ question => p.kind = "question" /\ p.target \in PoolB
             /\ ~bio /\ ~question => p.kind = "silence_breaker" /\ p.target = NoUser
             /\ (p.first = "none") = (PoolA = {})
             /\ (p.second = "none") = (bio \/ PoolB = {})
             /\ PoolA = {} /\ PoolB = {} => p.kind = "silence_breaker"]_vars

\* a cycle has just sent a question to a member with a handle after the
\* first draw was below 0.6 and fell on a member without a handle, in a chat
\* where another member without a bio has a handle
C27_Witness ==
    /\ sched.pc = "cycle"
    /\ sched.poke.chat = GroupChat
    /\ sched.poke.first = "below"
    /\ sched.poke.pick = Boris
    /\ sched.poke.kind = "question"
    /\ sched.poke.target = Anna
    /\ Anna \in get_members_without_bio(chat_members, users, GroupChat)
    /\ ~is_user_ignored(user_ignore, GroupChat, Anna, now)

\* C28: when the start-up pass is through, every group chat that was known
\* when it began has its poke time 90 to 2880 minutes after an instant of the
\* pass, whether its announcement was delivered or not; the pass begins only
\* at the start of the process, and a poll cycle only after the sleep that
\* follows the pass or a cycle
C28_StartupSchedulesAll ==
    [][/\ (sched.pc = "announce" /\ sched'.pc = "sleep") =>
             \A c \in sched.known :
                c < 0 =>
                   \E t \in sched.at..now :
                      chat_settings[c].next_poke_at
                         \in (t + POKE_MIN_MINUTES)..(t + POKE_MAX_MINUTES)
       /\ (sched'.pc = "announce" /\ sched.pc # "announce") => sched.pc = "boot"
       /\ (sched'.pc = "cycle" /\ sched.pc # "cycle") => sched.pc = "sleep"
       /\ sched.pc \in {"sleep", "cycle"} => sched'.pc \in {"sleep", "cycle", "boot"}]_vars

\* a pass begun after minute 0 is through for the two group chats of the
\* database, no announcement was delivered, and both have a new poke time
C28_Witness ==
    /\ sched.pc = "announce"
    /\ sched.due = {}
    /\ sched.known = {GroupChat, OtherGroup}
    /\ sched.poke = NoPoke
    /\ sched.at > 0
    /\ \A c \in sched.known : chat_settings[c].next_poke_at >= sched.at + POKE_MIN_MINUTES

\* C29 (as stated): the message "pishi koroche i rezhe" makes the replies
\* one line shorter and 5 messages rarer
C29_Original ==
    (/\ last.handler = "on_group_message" /\ FromAUser(last.msg)
     /\ last.msg.text = T_koroche_i_rezhe) =>
        /\ chat_settings[GroupChat].max_response_lines
              = max(1, last.before.max_response_lines - 1)
        /\ chat_settings[GroupChat].reply_frequency = last.before.reply_frequency + 5

\* the entries of an action that match the text
MatchingEntries(text, action) ==
    {k \in 1..Len(SETTINGS_PATTERNS) :
        SETTINGS_PATTERNS[k].action = action /\ pattern_search(k, text).ok}

\* C30: a text on which one "reply more" entry matches and no "reply less"
\* entry leaves the frequency at max(1, f - 3); one "reply less" entry and
\* no "reply more" entry, at f + 5, however large; one of each, at
\* max(1, f - 3) + 5, "reply more" coming first in the table
C30_FrequencyAdjustments ==
    (last.handler = "on_group_message" /\ FromAUser(last.msg)) =>
        LET f == last.before.reply_frequency
            ups == Cardinality(MatchingEntries(last.msg.text, "freq_up"))
            downs == Cardinality(MatchingEntries(last.msg.text, "freq_down"))
            new_freq == chat_settings[GroupChat].reply_frequency
        IN /\ \A i \in MatchingEntries(last.msg.text, "freq_up"),
                 j \in MatchingEntries(last.msg.text, "freq_down") : i < j
           /\ ups = 1 /\ downs = 0 => new_freq = max(1, f - 3) /\ new_freq <= f
           /\ ups = 0 /\ downs = 1 => new_freq = f + 5
           /\ ups = 1 /\ downs = 1 => new_freq = max(1, f - 3) + 5

\* "pishi chashche, otvechaj rezhe" in a chat that was at 2: the floor of
\* "reply more" is met first, then 5 is added
C30_Witness ==
    /\ last.handler = "on_group_message" /\ FromAUser(last.msg)
    /\ last.msg.text = T_chashche_rezhe
    /\ last.before.reply_frequency = 2
    /\ chat_settings[GroupChat].reply_frequency = 6

(***************************************************************************)
(* SpecIgnoreCalls: set_user_ignore called one after another for two users *)
(* in two chats, with expiry times in any order.  hist.calls holds, for    *)
(* each (chat, user), the expiry times of the calls made so far.           *)
(***************************************************************************)
MaxIgnoreCalls == 4

IgnorePairs == {GroupChat, OtherGroup} \X {Anna, Boris}

\* until_ts: in 1, 2 or 30 days from minute 0
IgnoreUntils == {MinutesPerDay, 2 * MinutesPerDay, 30 * MinutesPerDay}

SetUserIgnore ==
    /\ hist.n < MaxIgnoreCalls
    /\ \E p \in IgnorePairs, until_ts \in IgnoreUntils :
          /\ user_ignore' = set_user_ignore(user_ignore, p[1], p[2], until_ts)
          /\ hist' = [hist EXCEPT !.n = @ + 1,
                         !.calls = [q \in DOMAIN @ \cup {p} |->
                                       IF q = p
                                       THEN Append(IF p \in DOMAIN @ THEN @[p] ELSE <<>>,
                                                   until_ts)
                                       ELSE @[q]]]
    /\ process' = get_pool(process)
    /\ UNCHANGED <<now, chat_settings, users, chat_members, image_gen_log, last, sched,
                   tasks>>

NextIgnoreCalls == SetUserIgnore

SpecIgnoreCalls == InitEmpty /\ [][NextIgnoreCalls]_vars

\* C31: the table holds one entry for each (chat, user) set_user_ignore was
\* called for and no other, and the entry is the expiry time of the last
\* call for that pair, earlier than the one before or not
C31_IgnoreOverwrites ==
    /\ DOMAIN user_ignore = DOMAIN hist.calls
    /\ \A p \in DOMAIN user_ignore : user_ignore[p] = hist.calls[p][Len(hist.calls[p])]

\* the last call for a pair gave an earlier time than the call before it,
\* and another user of the same chat has an entry of its own
C31_Witness ==
    \E p, q \in DOMAIN user_ignore :
        /\ p[1] = q[1] /\ p[2] # q[2]
        /\ Len(hist.calls[p]) = 2
        /\ hist.calls[p][2] < hist.calls[p][1]
        /\ user_ignore[p] = hist.calls[p][2]
        /\ user_ignore[q] = 30 * MinutesPerDay

\* C32: a text handler that asked the completion service for a reply and got
\* a failure has sent one reply, the fallback text, and nothing else, and has
\* reset the count of the chat to 0
C32_FallbackOnCompletionFailure ==
    (/\ last.handler = "on_group_message" /\ FromAUser(last.msg)
     /\ last.out.asks > 0
     /\ ~last.env.complete_ok) =>
        /\ last.out.asks = 1
        /\ last.out.replies = <<"fallback">>
        /\ last.out.resets = 1
        /\ MessageCount(GroupChat) = 0

\* the completion service failed for a reply that the counter set off: the
\* message was no mention and brought the count up to the frequency
C32_Witness ==
    /\ last.handler = "on_group_message" /\ FromAUser(last.msg)
    /\ ~_is_direct_mention(last.msg)
    /\ last.existed
    /\ last.before.message_count + 1 = last.before.reply_frequency
    /\ last.before.message_count > 0
    /\ ~last.env.complete_ok
    /\ last.out.replies = <<"fallback">>
    /\ MessageCount(GroupChat) = 0

\* the text of a handled message that the settings scan is about: the text,
\* the transcription of the voice, the caption of the photo
ScannedText(l) ==
    CASE l.handler = "on_voice" -> l.env.transcription
      [] OTHER -> l.msg.text

\* C33 (as stated): a message is scanned for settings patterns before the
\* counter or the mention check see it, so a message of a user whose text,
\* transcription or caption matches a pattern has its setting applied and
\* reaches neither increment_and_get nor the completion service
C33_Original ==
    (/\ last.handler \in GroupHandlers /\ FromAUser(last.msg)
     /\ last.msg.reply_to # "bot_dossier"
     /\ MatchesSettings(ScannedText(last))) =>
        /\ last.out.applied # <<>>
        /\ last.out.incrs = 0
        /\ last.out.asks = 0

(***************************************************************************)
(* SpecReplyRace: on_group_message for plain texts without a mention in    *)
(* one chat, as concurrent tasks.  A handler gives way at every await:     *)
(* after the count it got from increment_and_get reached the frequency it  *)
(* waits for _ask_sheldon and for the delivery of the reply, and only then *)
(* calls reset_message_count.  The chat is at the default frequency 5 or   *)
(* at 2, where one "reply more" request leaves it.  hist.n counts the      *)
(* messages handled and hist.r the replies delivered.                      *)
(***************************************************************************)
MaxRaceMessages == 5

RaceIds == {1, 2, 3}

RaceIdle == [pc |-> "idle", count |-> 0]

InitReplyRace ==
    /\ now = 0
    /\ chat_settings \in {(GroupChat :> [DefaultRow(0) EXCEPT !.reply_frequency = f]) :
                             f \in {2, 5}}
    /\ users = Empty
    /\ chat_members = {}
    /\ user_ignore = Empty
    /\ image_gen_log = Empty
    /\ last = InitLast
    /\ hist = InitHist
    /\ sched = InitSched
    /\ tasks = [i \in RaceIds |-> RaceIdle]
    /\ process = Running

\* the handler up to "if count >= frequency": the sender and the activity
\* are recorded, the text matches no settings pattern and is no mention, and
\* count, frequency = await db.increment_and_get(chat_id)
RaceCount(i) ==
    /\ tasks[i].pc = "idle"
    /\ hist.n < MaxRaceMessages
    /\ users' = upsert_user(users, Anna, Username(Anna))
    /\ chat_members' = add_chat_member(chat_members, GroupChat, Anna)
    /\ \E cs \in {increment_and_get(touch_last_activity(chat_settings, GroupChat, now),
                                    GroupChat, now)} :
          /\ chat_settings' = cs
          /\ tasks' = [tasks EXCEPT ![i] =
                IF cs[GroupChat].message_count >= cs[GroupChat].reply_frequency
                THEN [pc |-> "ask", count |-> cs[GroupChat].message_count]
                ELSE RaceIdle]
    /\ hist' = [hist EXCEPT !.n = @ + 1]
    /\ process' = get_pool(process)
    /\ UNCHANGED <<now, user_ignore, image_gen_log, last, sched>>

\* reply_text = await _ask_sheldon(chat_id); await message.reply(reply_text)
RaceReply(i) ==
    /\ tasks[i].pc = "ask"
    /\ chat_settings' = get_full_chat_settings(chat_settings, GroupChat, now)
    /\ tasks' = [tasks EXCEPT ![i].pc = "reset"]
    /\ hist' = [hist EXCEPT !.r = @ + 1]
    /\ process' = get_pool(process)
    /\ UNCHANGED <<now, users, chat_members, user_ignore, image_gen_log, last, sched>>

\* await db.reset_message_count(chat_id)
RaceReset(i) ==
    /\ tasks[i].pc = "reset"
    /\ chat_settings' = reset_message_count(chat_settings, GroupChat)
    /\ tasks' = [tasks EXCEPT ![i] = RaceIdle]
    /\ process' = get_pool(process)
    /\ UNCHANGED <<now, users, chat_members, user_ignore, image_gen_log, last, hist, sched>>

NextReplyRace ==
    \/ \E i \in RaceIds : RaceCount(i)
    \/ \E i \in RaceIds : RaceReply(i)
    \/ \E i \in RaceIds : RaceReset(i)

SpecReplyRace == InitReplyRace /\ [][NextReplyRace]_vars

\* C34 (as stated): with the frequency f unchanged, the replies delivered
\* never number more than floor(m / f) for the m messages handled
C34_Original ==
    hist.r * chat_settings[GroupChat].reply_frequency <= hist.n

\* the poke time of the chat has come and the chat was active at or after it
PokeTimePassedInActivity(chat_id) ==
    /\ chat_id < 0
    /\ chat_settings[chat_id].next_poke_at <= now
    /\ chat_settings[chat_id].last_activity >= chat_settings[chat_id].next_poke_at

\* C35 (as stated): outside the start-up pass, no step changes the poke time
\* of a group chat whose poke time has come and which was active at or after it
C35_Original ==
    [][\A c \in DOMAIN chat_settings :
          (PokeTimePassedInActivity(c) /\ sched.pc # "announce") =>
             chat_settings'[c].next_poke_at = chat_settings[c].next_poke_at]_vars

\* C35 (amended): outside the start-up pass the poke time of a group chat is
\* changed by the poll cycle's poke of that chat and by nothing else; and a
\* chat whose poke time has come and which was active at or after it, unless
\* a cycle in progress fetched it as due before that activity, stays so: it
\* keeps its poke time, is not among the chats due for a poke, and is not poked
C35_DroppedPokeStays ==
    [][\A c \in DOMAIN chat_settings :
          (c < 0 /\ sched.pc # "announce") =>
             /\ chat_settings'[c].next_poke_at # chat_settings[c].next_poke_at =>
                   PokeStep /\ c \in sched.due /\ sched'.poke.chat = c
             /\ (PokeTimePassedInActivity(c) /\ c \notin sched.due) =>
                   /\ chat_settings'[c].next_poke_at = chat_settings[c].next_poke_at
                   /\ chat_settings'[c].last_activity >= chat_settings'[c].next_poke_at
                   /\ c \notin get_chats_due_for_poke(chat_settings', now')
                   /\ sched'.pc = "cycle" => c \notin sched'.due
                   /\ (c \in DOMAIN hist.poked) = (c \in DOMAIN hist'.poked)
                   /\ c \in DOMAIN hist.poked => hist'.poked[c] = hist.poked[c]]_vars

\* the start-up pass gave the chat the poke time 90, the chat was active at
\* or after it, and a cycle that polled a minute or more later has left it
\* out: it has not been poked and its poke time is still 90
C35_Witness ==
    /\ GroupChat \in DOMAIN chat_settings
    /\ chat_settings[GroupChat].next_poke_at = POKE_MIN_MINUTES
    /\ PokeTimePassedInActivity(GroupChat)
    /\ sched.pc = "cycle"
    /\ sched.at > POKE_MIN_MINUTES
    /\ GroupChat \notin sched.due
    /\ GroupChat \notin DOMAIN hist.poked

\* the group chat has a row whose poke time is not after its last activity,
\* it has never been poked, and no pass or cycle in progress holds it
NeverScheduled(chat_id) ==
    /\ chat_id \in DOMAIN chat_settings
    /\ chat_settings[chat_id].next_poke_at <= chat_settings[chat_id].last_activity
    /\ chat_id \notin DOMAIN hist.poked
    /\ chat_id \notin sched.due

\* C36: the row that a message handler creates for a group chat has poke
\* time and last activity both at the time of creation and is in no list of
\* the scheduler; from then on, whatever messages and poll cycles follow,
\* the poke time stays what it is and not after the last activity, the chat
\* is not due and is not poked, until a start-up pass fetches the chat
C36_LazyChatNeverPoked ==
    [][\A c \in {GroupChat, OtherGroup} :
          /\ (c \notin DOMAIN chat_settings /\ c \in DOMAIN chat_settings') =>
                /\ last'.handler \in GroupHandlers /\ last'.msg.chat_id = c
                /\ chat_settings'[c].next_poke_at = now
                /\ chat_settings'[c].last_activity = now
                /\ c \notin get_chats_due_for_poke(chat_settings', now')
                /\ NeverScheduled(c)'
          /\ NeverScheduled(c) =>
                /\ chat_settings'[c].next_poke_at = chat_settings[c].next_poke_at
                /\ chat_settings'[c].next_poke_at <= chat_settings'[c].last_activity
                /\ c \notin get_chats_due_for_poke(chat_settings', now')
                /\ c \notin DOMAIN hist'.poked
                /\ c \in sched'.due => sched.pc = "boot" /\ sched'.pc = "announce"]_vars

\* a chat created at minute 0, after the start-up pass of the running
\* process had fetched the chats, is still unscheduled and unpoked when a
\* cycle polls at minute 181, two messages later
C36_Witness ==
    /\ NeverScheduled(GroupChat)
    /\ chat_settings[GroupChat].next_poke_at = 0
    /\ chat_settings[GroupChat].last_activity > 0
    /\ sched.pc = "cycle"
    /\ sched.at = 2 * POKE_MIN_MINUTES + 1
    /\ now = sched.at

\* the request of task i ends with this step
PhotoRequestEnds(i) == tasks[i].pc # "idle" /\ tasks'[i].pc = "idle"

\* C37: whatever the interleaving of the photo handlers, a step changes the
\* day's count only when it ends an edit request with a generated image,
\* and then by exactly 1; a request that the limit check refuses and a
\* request whose generation fails end with the count as they found it
C37_CountOnlyAfterSuccess ==
    [][/\ \A i \in TaskIds :
             PhotoRequestEnds(i) =>
                /\ last'.out.replies = <<"limit">> <=>
                      /\ tasks[i].pc = "check"
                      /\ get_image_gen_count_today(image_gen_log, now)
                            >= IMAGE_GEN_DAILY_LIMIT
                /\ last'.out.replies = <<"image">> =>
                      /\ tasks[i].pc = "generate"
                      /\ image_gen_log' = increment_image_gen_count(image_gen_log, now)
                      /\ get_image_gen_count_today(image_gen_log', now')
                            = get_image_gen_count_today(image_gen_log, now) + 1
                /\ last'.out.replies # <<"image">> => image_gen_log' = image_gen_log
       /\ image_gen_log' # image_gen_log =>
             /\ \E i \in TaskIds : PhotoRequestEnds(i)
             /\ last'.out.replies = <<"image">>
             /\ hist'.r = hist.r + 1
       /\ hist'.r # hist.r => image_gen_log' # image_gen_log]_vars

\* ten requests ended with an image, the eleventh was refused by the limit
\* check, and the count of the date is 10
C37_Witness ==
    /\ hist.n = MaxPhotoRequests
    /\ \A i \in TaskIds : tasks[i].pc = "idle"
    /\ last.out.replies = <<"limit">>
    /\ last.images_before = IMAGE_GEN_DAILY_LIMIT
    /\ get_image_gen_count_today(image_gen_log, now) = IMAGE_GEN_DAILY_LIMIT
    /\ hist.r = IMAGE_GEN_DAILY_LIMIT
====
